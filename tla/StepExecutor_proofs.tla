------------------------ MODULE StepExecutor_proofs ------------------------
(***************************************************************************)
(* Proofs about StepExecutor for every bundle, every set of excluded,      *)
(* foreign and secret manifests, every sweep and any number of attempts,   *)
(* crashes and reverts.                                                    *)
(***************************************************************************)
EXTENDS StepExecutor, TLAPS

USE ExecutorAssumption

-----------------------------------------------------------------------------
(* What a step consists of.                                                 *)

\* The targets of a step are targets of the model, and a release is one.
LEMMA ChangesType ==
  ASSUME TypeOK
  PROVE  /\ \A k \in DOMAIN Changes : k \in Nat \ {0} /\ Changes[k] \in Targets
         /\ \A k \in DOMAIN Previews : k \in Nat \ {0} /\ Previews[k] \in Targets \cup {"template"}
         /\ IsHelm => DOMAIN Changes = {1} /\ Changes[1] = Release
         /\ ~IsHelm => Previews = Changes /\ \A k \in DOMAIN Changes : Changes[k] \in Manifests
<1>1. plan.documents \in Seq(Manifests)
  <2>1. plan.documents \in Bundles \/ plan.documents = <<>>
    BY DEF TypeOK, Plan
  <2>2. <<>> \in Seq(Manifests)
    OBVIOUS
  <2> QED
    BY <2>1, <2>2
<1>2. CASE IsHelm
  BY <1>2 DEF Changes, Previews, Targets
<1>3. CASE ~IsHelm
  BY <1>1, <1>3 DEF Changes, Previews, Targets
<1> QED
  BY <1>2, <1>3

\* The step stays the same.
LEMMA SamePlan ==
  ASSUME plan' = plan
  PROVE  IsHelm' = IsHelm /\ Changes' = Changes /\ Previews' = Previews /\ Wanted' = Wanted
  BY DEF IsHelm, Changes, Previews, Wanted, Left

\* No action changes it.
LEMMA PlanStays == [Next]_vars => plan' = plan
<1>1. Executor => plan' = plan
  BY DEF Executor, BeginDryRun, BeginMutation, Begin, Rehearse, RehearsalSucceeds, RehearsalFails,
         Refused, AllExcluded, Admitted, AddRepo, Send, Answered, NotAnswered, Raised, Status,
         Report, Retry, Crash, WorkerFrame
<1>2. Servers => plan' = plan
  BY DEF Servers, FinishInstall, Apply, StartInstall, Refuse, Lose, ServerFrame
<1>3. Reverter => plan' = plan
  BY DEF Reverter, BeginRevert, RollbackUnauthorized, ListReleases, Uninstall, DeleteCollection,
         EndRevert, RevertFrame
<1> QED
  BY <1>1, <1>2, <1>3 DEF Next, vars

-----------------------------------------------------------------------------
(* Types.                                                                   *)

\* What TypeOK needs to be inductive: a call that is awaited is one of the
\* step's, and only a release is being installed.
Located ==
    /\ call.pc = "await" => call.i \in DOMAIN Changes
    /\ cluster.by # Nobody => cluster.by[1] = Release /\ Release \in landed

TypeInv == TypeOK /\ Located

\* Nothing has begun.
LEMMA InitTypeInv == Init => TypeInv
<1> SUFFICES ASSUME Init PROVE TypeInv
  OBVIOUS
<1>1. plan \in Plan
  BY DEF Init, Plan
<1>2. step \in StepRecord
  BY DEF Init, StepRecord, StepStates
<1>3. call \in CallRecord /\ call.pc = "idle"
  BY DEF Init, CallRecord, Quiet, Calling
<1>4. cluster \in ClusterRecord /\ cluster.by = Nobody
  BY DEF Init, ClusterRecord, ReleaseStates
<1>5. revert \in RevertRecord
  BY DEF Init, RevertRecord, NoRevert, Reverting
<1>6. report \in ReportRecord /\ bounds \in Bounds
  BY DEF Init, ReportRecord, Bounds
<1> QED
  BY <1>1, <1>2, <1>3, <1>4, <1>5, <1>6 DEF TypeInv, TypeOK, Located, Init

\* A call as the executor starts or ends one.
LEMMA CallingType ==
  ASSUME NEW mutations \in SUBSET Targets, NEW unknown \in BOOLEAN,
         NEW pc \in {"idle", "rehearse", "gate", "report"}
  PROVE  Calling(pc, mutations, unknown) \in CallRecord
  BY DEF Calling, CallRecord

\* The steps of the worker keep the types ...
LEMMA ExecutorTypes == TypeInv /\ Executor => TypeOK'
<1> SUFFICES ASSUME TypeOK, Located, Executor PROVE TypeOK'
  BY DEF TypeInv
<1>C. /\ \A k \in DOMAIN Changes : k \in Nat \ {0} /\ Changes[k] \in Targets
      /\ \A k \in DOMAIN Previews : k \in Nat \ {0} /\ Previews[k] \in Targets \cup {"template"}
  BY ChangesType
<1>L. call.pc = "await" => Changes[call.i] \in Targets
  BY <1>C DEF Located
<1>T. Release \in Targets
  BY DEF Targets
<1>1. CASE BeginDryRun
  <2>1. step' \in StepRecord
    BY <1>1 DEF BeginDryRun, Begin, StepRecord, StepStates, TypeOK
  <2>2. call' \in CallRecord
    BY <1>1 DEF BeginDryRun, Begin, Calling, CallRecord, Quiet, TypeOK
  <2> QED
    BY <1>1, <2>1, <2>2 DEF BeginDryRun, Begin, TypeOK, WorkerFrame, history
<1>2. CASE BeginMutation
  <2>1. step' \in StepRecord
    BY <1>2 DEF BeginMutation, Begin, StepRecord, StepStates, TypeOK
  <2>2. call' \in CallRecord
    BY <1>2 DEF BeginMutation, Begin, Calling, CallRecord, Quiet, TypeOK
  <2> QED
    BY <1>2, <2>1, <2>2 DEF BeginMutation, Begin, TypeOK, WorkerFrame, history
<1>3. CASE Rehearse
  <2>1. call' \in CallRecord
    BY <1>3, <1>C DEF Rehearse, CallRecord, TypeOK
  <2>2. rehearsed' \subseteq Targets \cup {"template"}
    BY <1>3, <1>C DEF Rehearse, TypeOK
  <2> QED
    BY <1>3, <2>1, <2>2 DEF Rehearse, TypeOK, WorkerFrame, history
<1>4. CASE RehearsalSucceeds
  <2>1. step' \in StepRecord
    BY <1>4 DEF RehearsalSucceeds, StepRecord, StepStates, TypeOK
  <2>2. call' \in CallRecord
    BY <1>4 DEF RehearsalSucceeds, Calling, CallRecord, Quiet, TypeOK
  <2> QED
    BY <1>4, <2>1, <2>2 DEF RehearsalSucceeds, TypeOK, WorkerFrame, history
<1>5. CASE RehearsalFails
  <2>1. step' \in StepRecord
    BY <1>5 DEF RehearsalFails, StepRecord, StepStates, TypeOK
  <2>2. call' \in CallRecord
    BY <1>5 DEF RehearsalFails, CallRecord, TypeOK
  <2> QED
    BY <1>5, <2>1, <2>2 DEF RehearsalFails, TypeOK, WorkerFrame, history
<1>6. CASE Refused
  <2>1. step' \in StepRecord
    BY <1>6 DEF Refused, Fail, StepRecord, StepStates, TypeOK
  <2>2. call' \in CallRecord
    BY <1>6 DEF Refused, Fail, Calling, CallRecord, Quiet, TypeOK
  <2> QED
    BY <1>6, <2>1, <2>2 DEF Refused, TypeOK, WorkerFrame, history
<1>7. CASE AllExcluded
  <2>1. step' \in StepRecord
    BY <1>7 DEF AllExcluded, Succeed, StepRecord, StepStates, TypeOK
  <2>2. call' \in CallRecord
    BY <1>7 DEF AllExcluded, Succeed, Calling, CallRecord, Quiet, TypeOK
  <2> QED
    BY <1>7, <2>1, <2>2 DEF AllExcluded, TypeOK, WorkerFrame, history
<1>8. CASE Admitted
  <2>1. call' \in CallRecord
    BY <1>8 DEF Admitted, CallRecord, TypeOK
  <2> QED
    BY <1>8, <2>1 DEF Admitted, TypeOK, WorkerFrame, history
<1>9. CASE AddRepo
  <2>1. step' \in StepRecord
    BY <1>9, <1>T DEF AddRepo, Fail, StepRecord, StepStates, TypeOK
  <2>2. call' \in CallRecord
    <3>1. CASE Fail({Release}, FALSE)
      BY <3>1, <1>T, CallingType DEF Fail
    <3>2. CASE ~Fail({Release}, FALSE)
      BY <1>9, <3>2 DEF AddRepo, CallRecord, TypeOK
    <3> QED
      BY <3>1, <3>2
  <2> QED
    BY <1>9, <2>1, <2>2 DEF AddRepo, TypeOK, WorkerFrame, history
<1>10. CASE Send
  <2>1. PICK k \in DOMAIN Changes :
          /\ sent' = sent \cup {<<Changes[k], step.attempts>>}
          /\ call' = [call EXCEPT !.pc = "await", !.i = k, !.reply = "none"]
    BY <1>10 DEF Send
  <2>2. k \in Nat \ {0} /\ Changes[k] \in Targets
    BY <1>C
  <2>3. call' \in CallRecord
    BY <2>1, <2>2 DEF CallRecord, TypeOK
  <2>4. sent' \subseteq Tokens
    BY <2>1, <2>2 DEF Tokens, StepRecord, TypeOK
  <2> QED
    BY <1>10, <2>3, <2>4 DEF Send, TypeOK, WorkerFrame, history
<1>11. CASE Answered
  <2>1. step' \in StepRecord
    BY <1>11, <1>L DEF Answered, Succeed, StepRecord, StepStates, TypeOK
  <2>2. call' \in CallRecord
    <3>1. Recorded \in SUBSET Targets
      BY <1>11, <1>L DEF Answered, Recorded, CallRecord, TypeOK
    <3>2. CASE Left(Changes, call.i + 1) = {}
      BY <1>11, <3>1, <3>2, CallingType DEF Answered, Succeed
    <3>3. CASE Left(Changes, call.i + 1) # {}
      <4>1. call' = [call EXCEPT !.pc = "send", !.i = @ + 1, !.mutations = Recorded]
        BY <1>11, <3>3 DEF Answered
      <4>2. call.i + 1 \in Nat \ {0}
        BY DEF CallRecord, TypeOK
      <4>3. call' = [pc |-> "send", i |-> call.i + 1, reply |-> call.reply,
                     mutations |-> Recorded, unknown |-> call.unknown]
        BY <4>1 DEF CallRecord, TypeOK
      <4>4. call.reply \in {"none", "ok", "refused"} /\ call.unknown \in BOOLEAN
        BY DEF CallRecord, TypeOK
      <4> QED
        BY <4>2, <4>3, <4>4, <3>1 DEF CallRecord
    <3> QED
      BY <3>2, <3>3
  <2> QED
    BY <1>11, <2>1, <2>2 DEF Answered, TypeOK, WorkerFrame, history
<1>12. CASE NotAnswered
  <2>1. step' \in StepRecord
    BY <1>12, <1>L DEF NotAnswered, Fail, Ambiguous, StepRecord, StepStates, TypeOK
  <2>2. call' \in CallRecord
    <3>1. Recorded \in SUBSET Targets
      BY <1>12, <1>L DEF NotAnswered, Recorded, CallRecord, TypeOK
    <3>2. CASE Fail(Recorded, FALSE)
      BY <3>1, <3>2, CallingType DEF Fail
    <3>3. CASE Ambiguous
      BY <3>3 DEF Ambiguous, CallRecord, TypeOK
    <3> QED
      BY <1>12, <3>2, <3>3 DEF NotAnswered
  <2> QED
    BY <1>12, <2>1, <2>2 DEF NotAnswered, TypeOK, WorkerFrame, history
<1>13. CASE Raised
  <2>1. step' \in StepRecord
    BY <1>13 DEF Raised, Fail, StepRecord, StepStates, TypeOK
  <2>2. call' \in CallRecord
    BY <1>13 DEF Raised, Fail, Calling, CallRecord, Quiet, TypeOK
  <2> QED
    BY <1>13, <2>1, <2>2 DEF Raised, TypeOK, WorkerFrame, history
<1>14. CASE Status
  <2>1. step' \in StepRecord
    BY <1>14, <1>T DEF Status, Succeed, Fail, StepRecord, StepStates, TypeOK
  <2>2. call' \in CallRecord
    BY <1>14, <1>T, CallingType DEF Status, Succeed, Fail
  <2> QED
    BY <1>14, <2>1, <2>2 DEF Status, TypeOK, WorkerFrame, history
<1>15. CASE Report
  <2>1. step' \in StepRecord
    BY <1>15 DEF Report, StepRecord, StepStates, TypeOK
  <2>2. call' \in CallRecord
    BY <1>15 DEF Report, Calling, CallRecord, Quiet, TypeOK
  <2>3. report' \in ReportRecord
    BY <1>15 DEF Report, CallRecord, ReportRecord, TypeOK
  <2> QED
    BY <1>15, <2>1, <2>2, <2>3 DEF Report, TypeOK, WorkerFrame, history
<1>16. CASE Retry
  <2>1. step' \in StepRecord
    BY <1>16 DEF Retry, StepRecord, StepStates, TypeOK
  <2> QED
    BY <1>16, <2>1 DEF Retry, TypeOK, WorkerFrame, history
<1>17. CASE Crash
  <2>1. step' \in StepRecord
    BY <1>17 DEF Crash, StepRecord, StepStates, TypeOK
  <2>2. call' \in CallRecord
    BY <1>17 DEF Crash, Calling, CallRecord, Quiet, TypeOK
  <2>3. report' \in ReportRecord
    BY <1>17 DEF Crash, ReportRecord, TypeOK
  <2>4. bounds' \in Bounds
    BY <1>17 DEF Crash, Bounds, TypeOK
  <2> QED
    BY <1>17, <2>1, <2>2, <2>3, <2>4 DEF Crash, TypeOK, WorkerFrame, history
<1> QED
  BY <1>1, <1>2, <1>3, <1>4, <1>5, <1>6, <1>7, <1>8, <1>9, <1>10, <1>11, <1>12,
     <1>13, <1>14, <1>15, <1>16, <1>17 DEF Executor

\* ... and what is awaited: only a request sets out to wait.
LEMMA ExecutorLocated == TypeInv /\ Executor => Located'
<1> SUFFICES ASSUME TypeOK, Located, Executor PROVE Located'
  BY DEF TypeInv
<1>0. Changes' = Changes
  BY PlanStays, SamePlan DEF Next
<1>1. cluster' = cluster /\ landed' = landed
  BY DEF Executor, BeginDryRun, BeginMutation, Begin, Rehearse, RehearsalSucceeds, RehearsalFails,
         Refused, AllExcluded, Admitted, AddRepo, Send, Answered, NotAnswered, Raised, Status,
         Report, Retry, Crash, WorkerFrame, history
<1>2. CASE Send
  BY <1>0, <1>1, <1>2 DEF Send, Located, TypeOK, CallRecord
<1>3. CASE call'.pc # "await" \/ call' = call
  BY <1>0, <1>1, <1>3 DEF Located
<1>4. Executor /\ ~Send => call'.pc # "await" \/ call' = call
  <2>1. Refused => call'.pc # "await" \/ call' = call
    BY DEF Refused, Fail, Quiet, Calling, TypeOK
  <2>2. AllExcluded => call'.pc # "await" \/ call' = call
    BY DEF AllExcluded, Succeed, Quiet, Calling, TypeOK
  <2>3. Admitted => call'.pc # "await" \/ call' = call
    BY DEF Admitted, Calling, CallRecord, Quiet, TypeOK
  <2>4. AddRepo => call'.pc # "await" \/ call' = call
    BY DEF AddRepo, Fail, Calling, CallRecord, Quiet, TypeOK
  <2>5. Answered => call'.pc # "await" \/ call' = call
    <3>1. CASE Left(Changes, call.i + 1) = {}
      BY <3>1 DEF Answered, Succeed, Calling
    <3>2. CASE Left(Changes, call.i + 1) # {}
      <4>1. Answered => call' = [call EXCEPT !.pc = "send", !.i = @ + 1, !.mutations = Recorded]
        BY <3>2 DEF Answered
      <4> QED
        BY <4>1 DEF CallRecord, TypeOK
    <3> QED
      BY <3>1, <3>2
  <2>6. NotAnswered => call'.pc # "await" \/ call' = call
    BY DEF NotAnswered, Fail, Ambiguous, Calling, CallRecord, Quiet, TypeOK
  <2>7. Raised => call'.pc # "await" \/ call' = call
    BY DEF Raised, Fail, Quiet, Calling, TypeOK
  <2>8. Status => call'.pc # "await" \/ call' = call
    BY DEF Status, Succeed, Fail, Quiet, Calling, TypeOK
  <2>9. BeginDryRun => call'.pc # "await" \/ call' = call
    BY DEF BeginDryRun, Begin, Quiet, Calling, TypeOK
  <2>10. BeginMutation => call'.pc # "await" \/ call' = call
    BY DEF BeginMutation, Begin, Quiet, Calling, TypeOK
  <2>11. Rehearse => call'.pc # "await" \/ call' = call
    BY DEF Rehearse, Calling, CallRecord, Quiet, TypeOK
  <2>12. RehearsalSucceeds => call'.pc # "await" \/ call' = call
    BY DEF RehearsalSucceeds, Quiet, Calling, TypeOK
  <2>13. RehearsalFails => call'.pc # "await" \/ call' = call
    BY DEF RehearsalFails, Calling, CallRecord, Quiet, TypeOK
  <2>14. Report => call'.pc # "await" \/ call' = call
    BY DEF Report, Quiet, Calling, TypeOK
  <2>15. Retry => call'.pc # "await" \/ call' = call
    BY DEF Retry, Quiet, Calling, TypeOK
  <2>16. Crash => call'.pc # "await" \/ call' = call
    BY DEF Crash, Quiet, Calling, TypeOK
  <2> QED
    BY <2>1, <2>2, <2>3, <2>4, <2>5, <2>6, <2>7, <2>8, <2>9, <2>10, <2>11, <2>12, <2>13, <2>14, <2>15, <2>16 DEF Executor
<1> QED
  BY <1>2, <1>3, <1>4

\* So do those of the servers.
LEMMA ServerTypes == TypeInv /\ Servers => TypeInv'
<1> SUFFICES ASSUME TypeOK, Located, Servers PROVE TypeOK' /\ Located'
  BY DEF TypeInv
<1>0. Changes' = Changes
  BY PlanStays, SamePlan DEF Next
<1>T. Release \in Targets /\ \A t \in Tokens : t[1] \in Targets /\ (t[1] # Release => t[1] \in Manifests)
  BY DEF Targets, Tokens
<1>R. \A t, r : r \in {"ok", "refused"} /\ Reply(t, r)
               => call' \in CallRecord /\ call'.pc = call.pc /\ call'.i = call.i
  BY DEF Reply, TypeOK, CallRecord
<1>S. UNCHANGED call => call' \in CallRecord /\ call'.pc = call.pc /\ call'.i = call.i
  BY DEF TypeOK
<1>1. CASE FinishInstall
  <2>1. call' \in CallRecord /\ call'.pc = call.pc /\ call'.i = call.i
    BY <1>1, <1>R DEF FinishInstall
  <2>2. cluster' \in ClusterRecord
    BY <1>1, <1>T DEF FinishInstall, ClusterRecord, ReleaseStates, TypeOK
  <2>3. landed' \subseteq Targets /\ done' \subseteq landed' /\ since' \subseteq Manifests
    BY <1>1, <1>T DEF FinishInstall, Located, TypeOK
  <2>4. TypeOK'
    BY <1>1, <2>1, <2>2, <2>3 DEF FinishInstall, TypeOK, ServerFrame
  <2>5. cluster'.by # Nobody => cluster'.by[1] = Release /\ Release \in landed'
    BY <1>1 DEF FinishInstall, Located, TypeOK, ClusterRecord
  <2> QED
    BY <1>0, <2>1, <2>4, <2>5 DEF Located
<1>2. ASSUME NEW t \in sent, Apply(t) PROVE TypeOK' /\ Located'
  <2>1. call' \in CallRecord /\ call'.pc = call.pc /\ call'.i = call.i
    BY <1>2, <1>R DEF Apply
  <2>2. sent' \subseteq Tokens
    BY <1>2, <1>T DEF Apply, TypeOK
  <2>3. cluster' \in ClusterRecord
    BY <1>2, <1>T DEF Apply, ClusterRecord, TypeOK
  <2>4. landed' \subseteq Targets /\ done' \subseteq landed' /\ since' \subseteq Manifests
    BY <1>2, <1>T DEF Apply, TypeOK
  <2>5. TypeOK'
    BY <1>2, <2>1, <2>2, <2>3, <2>4 DEF Apply, TypeOK, ServerFrame
  <2>6. cluster'.by # Nobody => cluster'.by[1] = Release /\ Release \in landed'
    BY <1>2 DEF Apply, Located, TypeOK, ClusterRecord
  <2> QED
    BY <1>0, <2>1, <2>5, <2>6 DEF Located
<1>3. ASSUME NEW t \in sent, StartInstall(t) PROVE TypeOK' /\ Located'
  <2>1. call' \in CallRecord /\ call'.pc = call.pc /\ call'.i = call.i
    BY <1>3, <1>S DEF StartInstall
  <2>2. sent' \subseteq Tokens
    BY <1>3, <1>T DEF StartInstall, TypeOK
  <2>3. cluster' \in ClusterRecord
    BY <1>3, <1>T DEF StartInstall, ClusterRecord, ReleaseStates, TypeOK
  <2>4. landed' \subseteq Targets /\ done' \subseteq landed' /\ since' \subseteq Manifests
    BY <1>3, <1>T DEF StartInstall, TypeOK
  <2>5. TypeOK'
    BY <1>3, <2>1, <2>2, <2>3, <2>4 DEF StartInstall, TypeOK, ServerFrame
  <2>6. cluster'.by # Nobody => cluster'.by[1] = Release /\ Release \in landed'
    BY <1>3 DEF StartInstall, Located, TypeOK, ClusterRecord
  <2> QED
    BY <1>0, <2>1, <2>5, <2>6 DEF Located
<1>4. ASSUME NEW t \in sent, Refuse(t) PROVE TypeOK' /\ Located'
  <2>1. call' \in CallRecord /\ call'.pc = call.pc /\ call'.i = call.i
    BY <1>4, <1>R DEF Refuse
  <2>2. sent' \subseteq Tokens
    BY <1>4, <1>T DEF Refuse, TypeOK
  <2>3. landed' \subseteq Targets /\ done' \subseteq landed' /\ since' \subseteq Manifests
    BY <1>4, <1>T DEF Refuse, TypeOK
  <2>4. TypeOK'
    BY <1>4, <2>1, <2>2, <2>3 DEF Refuse, TypeOK, ServerFrame
  <2>5. cluster'.by # Nobody => cluster'.by[1] = Release /\ Release \in landed'
    BY <1>4 DEF Refuse, Located, TypeOK, ClusterRecord
  <2> QED
    BY <1>0, <2>1, <2>4, <2>5 DEF Located
<1>5. ASSUME NEW t \in sent, Lose(t) PROVE TypeOK' /\ Located'
  <2>1. call' \in CallRecord /\ call'.pc = call.pc /\ call'.i = call.i
    BY <1>5, <1>S DEF Lose
  <2>2. sent' \subseteq Tokens
    BY <1>5, <1>T DEF Lose, TypeOK
  <2>3. landed' \subseteq Targets /\ done' \subseteq landed' /\ since' \subseteq Manifests
    BY <1>5, <1>T DEF Lose, TypeOK
  <2>4. TypeOK'
    BY <1>5, <2>1, <2>2, <2>3 DEF Lose, TypeOK, ServerFrame
  <2>5. cluster'.by # Nobody => cluster'.by[1] = Release /\ Release \in landed'
    BY <1>5 DEF Lose, Located, TypeOK, ClusterRecord
  <2> QED
    BY <1>0, <2>1, <2>4, <2>5 DEF Located
<1> QED
  BY <1>1, <1>2, <1>3, <1>4, <1>5 DEF Servers

\* And those of a revert.
LEMMA RevertTypes == TypeInv /\ Reverter => TypeInv'
<1> SUFFICES ASSUME TypeOK, Located, Reverter PROVE TypeOK' /\ Located'
  BY DEF TypeInv
<1>0. Changes' = Changes /\ call' = call /\ landed' = landed
  <2>1. plan' = plan
    BY PlanStays DEF Next
  <2> QED
    BY <2>1, SamePlan DEF Reverter, BeginRevert, RollbackUnauthorized, ListReleases, Uninstall,
       DeleteCollection, EndRevert, RevertFrame
<1>L. cluster'.by \in {cluster.by, Nobody} => Located'
  BY <1>0 DEF Located
<1>1. CASE BeginRevert
  <2>1. revert' \in RevertRecord
    BY <1>1 DEF BeginRevert, RevertRecord, NoRevert, Reverting, ClusterRecord, TypeOK
  <2>2. bounds' \in Bounds
    BY <1>1 DEF BeginRevert, Bounds, TypeOK
  <2>3. TypeOK'
    BY <1>1, <2>1, <2>2 DEF BeginRevert, TypeOK, RevertFrame
  <2>4. cluster'.by \in {cluster.by, Nobody}
    BY <1>1 DEF BeginRevert, TypeOK, ClusterRecord
  <2> QED
    BY <2>3, <2>4, <1>L
<1>2. CASE RollbackUnauthorized
  <2>1. revert' \in RevertRecord
    BY <1>2 DEF RollbackUnauthorized, RevertRecord, NoRevert, Reverting, TypeOK
  <2>2. bounds' \in Bounds
    BY <1>2 DEF RollbackUnauthorized, Bounds, TypeOK
  <2>3. TypeOK'
    BY <1>2, <2>1, <2>2 DEF RollbackUnauthorized, TypeOK, RevertFrame
  <2>4. cluster'.by \in {cluster.by, Nobody}
    BY <1>2 DEF RollbackUnauthorized, TypeOK, ClusterRecord
  <2> QED
    BY <2>3, <2>4, <1>L
<1>3. CASE ListReleases
  <2>1. revert' \in RevertRecord
    BY <1>3 DEF ListReleases, RevertRecord, TypeOK
  <2>2. TypeOK'
    BY <1>3, <2>1 DEF ListReleases, TypeOK, RevertFrame
  <2>3. cluster'.by \in {cluster.by, Nobody}
    BY <1>3 DEF ListReleases, TypeOK, ClusterRecord
  <2> QED
    BY <2>2, <2>3, <1>L
<1>4. CASE Uninstall
  <2>1. PICK o \in Outcomes, r \in {"absent", "old"} :
          /\ cluster' = IF o.deleted
                         THEN [cluster EXCEPT !.release = r, !.was = "absent", !.by = Nobody]
                         ELSE cluster
          /\ revert' = [revert EXCEPT !.pc = "sweep", !.ok = @ /\ o.ok]
    BY <1>4 DEF Uninstall
  <2>2. revert' \in RevertRecord
    <3>1. (revert.ok /\ o.ok) \in BOOLEAN
      OBVIOUS
    <3> QED
      BY <2>1, <3>1 DEF RevertRecord, TypeOK
  <2>3. cluster' \in ClusterRecord
    <3>1. [cluster EXCEPT !.release = r, !.was = "absent", !.by = Nobody] \in ClusterRecord
      BY DEF ClusterRecord, ReleaseStates, TypeOK
    <3>2. CASE o.deleted
      BY <2>1, <3>1, <3>2
    <3>3. CASE ~o.deleted
      BY <2>1, <3>3 DEF TypeOK
    <3> QED
      BY <3>2, <3>3
  <2>4. TypeOK'
    BY <1>4, <2>2, <2>3 DEF Uninstall, TypeOK, RevertFrame
  <2>5. cluster'.by \in {cluster.by, Nobody}
    <3>1. CASE o.deleted
      BY <2>1, <3>1 DEF TypeOK, ClusterRecord
    <3>2. CASE ~o.deleted
      BY <2>1, <3>2
    <3> QED
      BY <3>1, <3>2
  <2> QED
    BY <2>4, <2>5, <1>L
<1>5. CASE DeleteCollection
  <2>1. revert' \in RevertRecord
    <3>1. PICK o \in Outcomes : revert' = [revert EXCEPT !.i = @ + 1, !.ok = @ /\ o.ok]
      BY <1>5 DEF DeleteCollection
    <3>2. (revert.ok /\ o.ok) \in BOOLEAN
      OBVIOUS
    <3>3. revert.i + 1 \in Nat \ {0}
      BY DEF RevertRecord, TypeOK
    <3> QED
      BY <3>1, <3>2, <3>3 DEF RevertRecord, TypeOK
  <2>2. cluster' \in ClusterRecord
    BY <1>5 DEF DeleteCollection, ClusterRecord, TypeOK
  <2>3. TypeOK'
    BY <1>5, <2>1, <2>2 DEF DeleteCollection, TypeOK, RevertFrame
  <2>4. cluster'.by \in {cluster.by, Nobody}
    BY <1>5 DEF DeleteCollection, TypeOK, ClusterRecord
  <2> QED
    BY <2>3, <2>4, <1>L
<1>6. CASE EndRevert
  <2>1. revert' \in RevertRecord
    BY <1>6 DEF EndRevert, RevertRecord, TypeOK
  <2>2. TypeOK'
    BY <1>6, <2>1 DEF EndRevert, TypeOK, RevertFrame
  <2>3. cluster'.by \in {cluster.by, Nobody}
    BY <1>6 DEF EndRevert, TypeOK, ClusterRecord
  <2> QED
    BY <2>2, <2>3, <1>L
<1> QED
  BY <1>1, <1>2, <1>3, <1>4, <1>5, <1>6 DEF Reverter

\* A step left alone stays as it is.
LEMMA StutterTypes == TypeInv /\ UNCHANGED vars => TypeInv'
<1> SUFFICES ASSUME TypeInv, UNCHANGED vars PROVE TypeInv'
  OBVIOUS
<1>1. Changes' = Changes
  BY SamePlan DEF vars
<1> QED
  BY <1>1 DEF TypeInv, TypeOK, Located, vars, history

LEMMA NextTypeInv == TypeInv /\ [Next]_vars => TypeInv'
  BY ExecutorTypes, ExecutorLocated, ServerTypes, RevertTypes, StutterTypes DEF Next, TypeInv

\* The step, the call, the cluster and the revert keep their types, whatever
\* is lost, late or crashes.
THEOREM TypeCorrect == Spec => []TypeOK
<1>1. TypeInv => TypeOK
  BY DEF TypeInv
<1> QED
  BY InitTypeInv, NextTypeInv, <1>1, PTL DEF Spec

-----------------------------------------------------------------------------
(* The revert.                                                              *)

\* What the first n - 1 calls of a sweep delete.
Swept(n) == UNION {Sweep[k] : k \in {l \in DOMAIN Sweep : l < n}}

\* A sweep that has gone well so far left nothing of what it passed.
RevertInv ==
    /\ revert.pc \in {"list", "uninstall"} => revert.i = 1
    /\ revert.pc # "idle" => revert.outcome = "running"
    /\ revert.pc = "sweep" /\ revert.ok /\ ~revert.dry
           => revert.before \cap Swept(revert.i) \cap cluster.applied \subseteq since
    /\ RevertClears

\* The sweep goes collection by collection, and ends with the last.
LEMMA SweptGrows ==
  /\ Swept(1) = {}
  /\ \A n \in DOMAIN Sweep : Swept(n + 1) = Swept(n) \cup Sweep[n]
  /\ \A n \in Nat : n > Len(Sweep) => UNION Elements(Sweep) = Swept(n)
<1>1. Sweep \in Seq(SUBSET Manifests) /\ DOMAIN Sweep = 1..Len(Sweep) /\ Len(Sweep) \in Nat
  OBVIOUS
<1>2. Swept(1) = {}
  BY <1>1 DEF Swept
<1>3. ASSUME NEW n \in DOMAIN Sweep PROVE Swept(n + 1) = Swept(n) \cup Sweep[n]
  <2>1. {l \in DOMAIN Sweep : l < n + 1} = {l \in DOMAIN Sweep : l < n} \cup {n}
    BY <1>1
  <2> QED
    BY <2>1 DEF Swept
<1>4. ASSUME NEW n \in Nat, n > Len(Sweep) PROVE UNION Elements(Sweep) = Swept(n)
  <2>1. {l \in DOMAIN Sweep : l < n} = DOMAIN Sweep
    BY <1>1, <1>4
  <2> QED
    BY <2>1 DEF Swept, Elements
<1> QED
  BY <1>2, <1>3, <1>4

\* Neither the worker nor a server but for an apply touches what it is about.
LEMMA OthersRevertInv == TypeInv /\ RevertInv /\ (Executor \/ Servers \/ UNCHANGED vars) => RevertInv'
<1> SUFFICES ASSUME TypeOK, RevertInv, Executor \/ Servers \/ UNCHANGED vars PROVE RevertInv'
  BY DEF TypeInv
<1>1. ASSUME revert' = revert, cluster'.applied = cluster.applied, since' = since PROVE RevertInv'
  BY <1>1 DEF RevertInv, RevertClears
<1>2. CASE Executor
  BY <1>1, <1>2 DEF Executor, BeginDryRun, BeginMutation, Begin, Rehearse, RehearsalSucceeds,
         RehearsalFails, Refused, AllExcluded, Admitted, AddRepo, Send, Answered, NotAnswered, Raised,
         Status, Report, Retry, Crash, WorkerFrame, history
<1>3. CASE UNCHANGED vars
  BY <1>1, <1>3 DEF vars, history
<1>4. CASE FinishInstall
  <2>1. cluster'.applied = cluster.applied
    BY <1>4 DEF FinishInstall, ClusterRecord, TypeOK
  <2> QED
    BY <1>1, <1>4, <2>1 DEF FinishInstall, ServerFrame
<1>5. ASSUME NEW t \in sent, Apply(t) PROVE RevertInv'
  <2>1. cluster'.applied = cluster.applied \cup {t[1]} /\ since' = since \cup {t[1]} /\ revert' = revert
    BY <1>5 DEF Apply, ClusterRecord, TypeOK, ServerFrame
  <2>2. ASSUME NEW S, revert.before \cap S \cap cluster.applied \subseteq since
        PROVE  revert.before \cap S \cap cluster'.applied \subseteq since'
    BY <2>1, <2>2
  <2>3. RevertClears'
    BY <2>1, <2>2 DEF RevertInv, RevertClears
  <2> QED
    BY <2>1, <2>2, <2>3 DEF RevertInv
<1>6. ASSUME NEW t \in sent, StartInstall(t) PROVE RevertInv'
  <2>1. cluster'.applied = cluster.applied
    BY <1>6 DEF StartInstall, ClusterRecord, TypeOK
  <2> QED
    BY <1>1, <1>6, <2>1 DEF StartInstall, ServerFrame
<1>7. ASSUME NEW t \in sent, Refuse(t) \/ Lose(t) PROVE RevertInv'
  BY <1>1, <1>7 DEF Refuse, Lose, ServerFrame
<1> QED
  BY <1>2, <1>3, <1>4, <1>5, <1>6, <1>7 DEF Servers

\* The steps of the revert itself.
LEMMA OwnRevertInv == TypeInv /\ RevertInv /\ Reverter => RevertInv'
<1> SUFFICES ASSUME TypeOK, RevertInv, Reverter PROVE RevertInv'
  BY DEF TypeInv
<1>T. revert \in RevertRecord /\ cluster \in ClusterRecord
  BY DEF TypeOK
<1>1. CASE BeginRevert
  <2>1. PICK dry \in BOOLEAN : revert' = Reverting("list", dry, cluster.applied, "running")
    BY <1>1 DEF BeginRevert
  <2> QED
    BY <2>1 DEF Reverting, RevertInv, RevertClears
<1>2. CASE RollbackUnauthorized
  BY <1>2 DEF RollbackUnauthorized, Reverting, RevertInv, RevertClears
<1>3. CASE ListReleases
  <2>1. revert'.i = 1 /\ revert'.outcome = "running" /\ revert'.pc \in {"uninstall", "sweep"}
    BY <1>3, <1>T DEF ListReleases, RevertInv, RevertRecord
  <2> QED
    BY <2>1, SweptGrows DEF RevertInv, RevertClears
<1>4. CASE Uninstall
  <2>1. PICK o \in Outcomes : revert' = [revert EXCEPT !.pc = "sweep", !.ok = @ /\ o.ok]
    BY <1>4 DEF Uninstall
  <2>2. revert'.i = 1 /\ revert'.outcome = "running" /\ revert'.pc = "sweep"
    BY <2>1, <1>4, <1>T DEF Uninstall, RevertInv, RevertRecord
  <2> QED
    BY <2>2, SweptGrows DEF RevertInv, RevertClears
<1>5. CASE DeleteCollection
  <2>1. PICK o \in Outcomes :
            /\ cluster' = IF o.deleted THEN [cluster EXCEPT !.applied = @ \ Sweep[revert.i]] ELSE cluster
            /\ revert' = [revert EXCEPT !.i = @ + 1, !.ok = @ /\ o.ok]
    BY <1>5 DEF DeleteCollection
  <2>2. /\ revert'.i = revert.i + 1 /\ revert'.pc = "sweep" /\ revert'.outcome = "running"
        /\ revert'.dry = revert.dry /\ revert'.before = revert.before /\ since' = since
        /\ revert'.ok => revert.ok /\ o.ok
    BY <2>1, <1>5, <1>T DEF DeleteCollection, RevertInv, RevertRecord
  <2>3. revert.i \in DOMAIN Sweep
    BY <1>5, <1>T DEF DeleteCollection, RevertRecord
  <2>4. ASSUME revert'.ok, ~revert'.dry
        PROVE  revert'.before \cap Swept(revert'.i) \cap cluster'.applied \subseteq since'
    <3>1. o.deleted
      BY <2>2, <2>4 DEF Outcomes
    <3>2. cluster'.applied = cluster.applied \ Sweep[revert.i]
      BY <2>1, <3>1, <1>T DEF ClusterRecord
    <3>3. Swept(revert'.i) = Swept(revert.i) \cup Sweep[revert.i]
      BY <2>2, <2>3, SweptGrows
    <3>4. revert.before \cap Swept(revert.i) \cap cluster.applied \subseteq since
      BY <1>5, <2>2, <2>4 DEF DeleteCollection, RevertInv
    <3> QED
      BY <2>2, <3>2, <3>3, <3>4
  <2> QED
    BY <2>2, <2>4 DEF RevertInv, RevertClears
<1>6. CASE EndRevert
  <2>1. /\ revert'.pc = "idle" /\ revert'.dry = revert.dry /\ revert'.before = revert.before
        /\ revert'.outcome = "succeeded" => revert.ok
        /\ cluster' = cluster /\ since' = since
    BY <1>6, <1>T DEF EndRevert, RevertRecord
  <2>2. UNION Elements(Sweep) = Swept(revert.i)
    BY <1>6, <1>T, SweptGrows DEF EndRevert, RevertRecord
  <2>3. RevertClears'
    <3> SUFFICES ASSUME revert'.outcome = "succeeded", ~revert'.dry
                 PROVE  revert'.before \cap (UNION Elements(Sweep)) \cap cluster'.applied \subseteq since'
      BY DEF RevertClears
    <3>1. revert.pc = "sweep" /\ revert.ok /\ ~revert.dry
      BY <1>6, <2>1 DEF EndRevert
    <3>2. revert.before \cap Swept(revert.i) \cap cluster.applied \subseteq since
      BY <3>1 DEF RevertInv
    <3> QED
      BY <2>1, <2>2, <3>2
  <2> QED
    BY <2>1, <2>3 DEF RevertInv
<1> QED
  BY <1>1, <1>2, <1>3, <1>4, <1>5, <1>6 DEF Reverter

\* A revert that reports success left nothing of what it found in the
\* collections it deletes, but what was applied since: it deletes them one by
\* one while the worker goes on (RollbackExecutor.revert_namespace).
THEOREM RevertIsThorough == Spec => []RevertClears
<1>1. Init => RevertInv
  BY DEF Init, NoRevert, Reverting, RevertInv, RevertClears
<1>2. TypeInv /\ RevertInv /\ [Next]_vars => RevertInv'
  BY OthersRevertInv, OwnRevertInv DEF Next
<1>3. RevertInv => RevertClears
  BY DEF RevertInv
<1> QED
  BY InitTypeInv, NextTypeInv, <1>1, <1>2, <1>3, PTL DEF Spec

-----------------------------------------------------------------------------
(* What each step of the worker does to the fields of the stored step and   *)
(* of the call: the proofs below reason from these.                         *)

Staged(state, dry) == step'.state = state /\ step'.dry = dry
Moved(pc, i, mutations) ==
    /\ call'.pc = pc /\ call'.i = i /\ call'.mutations = mutations
    /\ call'.unknown = call.unknown
Fresh(pc, mutations, unknown) ==
    /\ call'.pc = pc /\ call'.i = 1 /\ call'.reply = "none" /\ call'.mutations = mutations
    /\ call'.unknown = unknown

\* A call as the executor starts or ends one, field by field.
LEMMA CallingFresh ==
  ASSUME NEW pc, NEW mutations, NEW unknown, call' = Calling(pc, mutations, unknown)
  PROVE  Fresh(pc, mutations, unknown)
  BY DEF Fresh, Calling

\* The dry run starts on a pending step.
LEMMA BeginDryRunEffect ==
  ASSUME TypeOK, BeginDryRun
  PROVE  /\ call.pc = "idle" /\ step.state = "pending"
         /\ Staged("dry_run_running", "dry_run_running")
         /\ Fresh("rehearse", {}, FALSE)
  BY CallingFresh DEF BeginDryRun, Begin, Staged, Moved, StepRecord, CallRecord, TypeOK

\* The mutation starts on a rehearsed step, whose dry run stays as it was.
LEMMA BeginMutationEffect ==
  ASSUME TypeOK, BeginMutation
  PROVE  /\ call.pc = "idle" /\ step.state = "dry_run_succeeded"
         /\ Staged("mutation_running", step.dry)
         /\ Fresh("gate", {}, FALSE)
  BY CallingFresh DEF BeginMutation, Begin, Staged, Moved, StepRecord, CallRecord, TypeOK

\* One preview goes through, in order.
LEMMA RehearseEffect ==
  ASSUME TypeOK, Rehearse
  PROVE  /\ call.pc = "rehearse" /\ step' = step
         /\ \E k \in DOMAIN Previews : /\ IsFirst(k, Left(Previews, call.i))
                                        /\ rehearsed' = rehearsed \cup {Previews[k]}
                                        /\ Moved("rehearse", k + 1, call.mutations)
  BY CallingFresh DEF Rehearse, Staged, Moved, StepRecord, CallRecord, TypeOK

\* No preview is left.
LEMMA RehearsalSucceedsEffect ==
  ASSUME TypeOK, RehearsalSucceeds
  PROVE  /\ call.pc = "rehearse" /\ Left(Previews, call.i) = {}
         /\ Staged("dry_run_succeeded", "dry_run_succeeded")
         /\ Fresh("idle", {}, FALSE)
  BY CallingFresh DEF RehearsalSucceeds, Quiet, Staged, Moved, StepRecord, CallRecord, TypeOK

\* The dry run fails, wherever it was.
LEMMA RehearsalFailsEffect ==
  ASSUME TypeOK, RehearsalFails
  PROVE  /\ call.pc = "rehearse"
         /\ Staged("dry_run_failed", "dry_run_failed")
         /\ Moved("report", call.i, call.mutations)
  BY CallingFresh DEF RehearsalFails, Staged, Moved, StepRecord, CallRecord, TypeOK

\* A refusal at the gate changes nothing in the cluster.
LEMMA RefusedEffect ==
  ASSUME TypeOK, Refused
  PROVE  /\ call.pc = "gate"
         /\ Staged("mutation_failed", step.dry)
         /\ Fresh("report", {}, FALSE)
  BY CallingFresh DEF Refused, Fail, Staged, Moved, StepRecord, CallRecord, TypeOK

\* A step without a manifest of its own is done.
LEMMA AllExcludedEffect ==
  ASSUME TypeOK, AllExcluded
  PROVE  /\ call.pc = "gate" /\ Wanted = {}
         /\ Staged("mutation_succeeded", step.dry)
         /\ Fresh("report", {}, FALSE)
  BY CallingFresh DEF AllExcluded, Succeed, Staged, Moved, StepRecord, CallRecord, TypeOK

\* The policy lets the step through.
LEMMA AdmittedEffect ==
  ASSUME TypeOK, Admitted
  PROVE  /\ call.pc = "gate" /\ PolicyAllows /\ step' = step
         /\ \E pc \in {"repo", "send"} : (pc = "repo" => IsHelm) /\ Moved(pc, call.i, call.mutations)
  BY CallingFresh DEF Admitted, Staged, Moved, StepRecord, CallRecord, TypeOK

\* The repository is there, was refused, or timed out.
LEMMA AddRepoEffect ==
  ASSUME TypeOK, AddRepo
  PROVE  /\ call.pc = "repo"
         /\ \/ step' = step /\ \E pc \in {"send", "status"} : Moved(pc, call.i, call.mutations)
            \/ Staged("mutation_failed", step.dry) /\ Fresh("report", {Release}, FALSE)
  BY CallingFresh DEF AddRepo, Fail, Staged, Moved, StepRecord, CallRecord, TypeOK

\* The next request sets out, and is awaited.
LEMMA SendEffect ==
  ASSUME TypeOK, Send
  PROVE  /\ call.pc = "send" /\ step' = step
         /\ \E k \in DOMAIN Changes : /\ IsFirst(k, Left(Changes, call.i))
                                       /\ sent' = sent \cup {<<Changes[k], step.attempts>>}
                                       /\ Moved("await", k, call.mutations)
         /\ call'.reply = "none"
  BY CallingFresh DEF Send, Staged, Moved, StepRecord, CallRecord, TypeOK

\* The answer records the target; the last one ends the step.
LEMMA AnsweredEffect ==
  ASSUME TypeOK, Answered
  PROVE  /\ call.pc = "await" /\ call.reply = "ok"
         /\ \/ /\ Left(Changes, call.i + 1) = {}
               /\ Staged("mutation_succeeded", step.dry)
               /\ Fresh("report", Recorded, FALSE)
            \/ step' = step /\ Moved("send", call.i + 1, Recorded)
  BY CallingFresh DEF Answered, Succeed, Staged, Moved, StepRecord, CallRecord, TypeOK

\* A refusal or a timeout: the target is recorded, or looked up.
LEMMA NotAnsweredEffect ==
  ASSUME TypeOK, NotAnswered
  PROVE  /\ call.pc = "await"
         /\ \/ Staged("mutation_failed", step.dry) /\ Fresh("report", Recorded, FALSE)
            \/ IsHelm /\ step' = step /\ Moved("status", call.i, call.mutations)
  BY CallingFresh DEF NotAnswered, Fail, Ambiguous, Staged, Moved, StepRecord, CallRecord, TypeOK

\* A call that raises leaves the outcome unknown.
LEMMA RaisedEffect ==
  ASSUME TypeOK, Raised
  PROVE  /\ call.pc = "await"
         /\ Staged("mutation_failed", step.dry)
         /\ Fresh("report", call.mutations, TRUE)
  BY CallingFresh DEF Raised, Fail, Staged, Moved, StepRecord, CallRecord, TypeOK

\* The look at the release decides.
LEMMA StatusEffect ==
  ASSUME TypeOK, Status
  PROVE  /\ call.pc = "status"
         /\ \/ /\ cluster.release \in Deployed
               /\ Staged("mutation_succeeded", step.dry)
               /\ Fresh("report", {Release}, FALSE)
            \/ Staged("mutation_failed", step.dry) /\ Fresh("report", {Release}, TRUE)
  BY CallingFresh DEF Status, Fail, Succeed, Staged, Moved, StepRecord, CallRecord, TypeOK

\* The report takes the call over into the observations.
LEMMA ReportEffect ==
  ASSUME TypeOK, Report
  PROVE  /\ call.pc = "report"
         /\ Staged(IF step.state = "mutation_succeeded" THEN step.state ELSE "decision_required", step.dry)
         /\ Fresh("idle", {}, FALSE)
         /\ report'.mutations = report.mutations \cup call.mutations
         /\ report'.unknown = (report.unknown \/ call.unknown)
  BY CallingFresh DEF Report, Quiet, Staged, Moved, StepRecord, CallRecord, TypeOK

\* A decision lets the step start again, where its dry run left it.
LEMMA RetryEffect ==
  ASSUME TypeOK, Retry
  PROVE  /\ call.pc = "idle" /\ step.state = "decision_required" /\ call' = call
         /\ \/ Staged("dry_run_succeeded", step.dry)
            \/ Staged("pending", "none")
  BY CallingFresh DEF Retry, Staged, Moved, StepRecord, CallRecord, TypeOK

\* A crash in a mutation leaves the outcome unknown.
LEMMA CrashEffect ==
  ASSUME TypeOK, Crash
  PROVE  /\ call.pc # "idle"
         /\ \/ step.state = "mutation_running" /\ Staged("decision_required", step.dry) /\ report'.unknown
            \/ step.state = "dry_run_running" /\ Staged("pending", "none")
            \/ step.state \notin {"mutation_running", "dry_run_running"} /\ step' = step
         /\ Fresh("idle", {}, FALSE)
         /\ report'.mutations = report.mutations
         /\ report.unknown => report'.unknown
<1>1. call.pc # "idle" /\ Fresh("idle", {}, FALSE)
  BY CallingFresh DEF Crash, Quiet
<1>2. CASE step.state = "mutation_running"
  <2>1. Staged("decision_required", step.dry)
    BY <1>2 DEF Crash, Staged, StepRecord, TypeOK
  <2>2. report' = [report EXCEPT !.unknown = TRUE]
    BY <1>2 DEF Crash
  <2> QED
    BY <1>1, <1>2, <2>1, <2>2 DEF ReportRecord, TypeOK
<1>3. CASE step.state # "mutation_running"
  <2>1. report' = [report EXCEPT !.unknown = report.unknown]
    BY <1>3, Zenon DEF Crash, ReportRecord, TypeOK
  <2>2. CASE step.state = "dry_run_running"
    BY <1>1, <2>1, <2>2 DEF Crash, Staged, StepRecord, ReportRecord, TypeOK
  <2>3. CASE step.state # "dry_run_running"
    BY <1>1, <1>3, <2>1, <2>3 DEF Crash, StepRecord, ReportRecord, TypeOK
  <2> QED
    BY <2>2, <2>3
<1> QED
  BY <1>2, <1>3

\* What the worker leaves alone.
LEMMA ExecutorFrame ==
  ASSUME Executor
  PROVE  /\ plan' = plan /\ cluster' = cluster /\ landed' = landed /\ done' = done
         /\ Send \/ sent' = sent
         /\ Report \/ Crash \/ report' = report
         /\ Rehearse \/ rehearsed' = rehearsed
  BY DEF Executor, BeginDryRun, BeginMutation, Begin, Rehearse, RehearsalSucceeds, RehearsalFails,
         Refused, AllExcluded, Admitted, AddRepo, Send, Answered, NotAnswered, Raised, Status,
         Report, Retry, Crash, WorkerFrame, history

\* A server changes at most the reply to the call.
LEMMA ServerFrameCall ==
  ASSUME TypeInv, Servers
  PROVE  /\ plan' = plan /\ step' = step /\ report' = report /\ rehearsed' = rehearsed
         /\ call'.pc = call.pc /\ call'.i = call.i /\ call'.mutations = call.mutations
         /\ call'.unknown = call.unknown
<1>1. plan' = plan /\ step' = step /\ report' = report /\ rehearsed' = rehearsed
  BY DEF Servers, FinishInstall, Apply, StartInstall, Refuse, Lose, ServerFrame
<1>2. (\E t, r : Reply(t, r)) \/ call' = call
  BY DEF Servers, FinishInstall, Apply, StartInstall, Refuse, Lose
<1>3. ASSUME NEW t, NEW r, Reply(t, r)
      PROVE  /\ call'.pc = call.pc /\ call'.i = call.i /\ call'.mutations = call.mutations
             /\ call'.unknown = call.unknown
  BY <1>3 DEF Reply, CallRecord, TypeOK, TypeInv
<1> QED
  BY <1>1, <1>2, <1>3

\* A revert leaves all of it alone.
LEMMA ReverterFrame ==
  ASSUME TypeInv, Reverter
  PROVE  UNCHANGED <<plan, step, call, report, sent, landed, done, rehearsed>>
  BY DEF Reverter, BeginRevert, RollbackUnauthorized, ListReleases, Uninstall, DeleteCollection,
         EndRevert, RevertFrame

-----------------------------------------------------------------------------
(* The call and the stored step go together.                                *)
Stages ==
    /\ call.pc \in {"gate", "repo", "send", "await", "status"} => step.state = "mutation_running"
    /\ call.pc = "rehearse" => step.state = "dry_run_running"
    /\ call.pc = "report" => step.state \in {"mutation_failed", "mutation_succeeded", "dry_run_failed"}
    /\ call.pc \in {"idle", "rehearse", "gate"} \/ step.state = "dry_run_failed" => call.mutations = {}
    /\ call.unknown => call.pc = "report" /\ step.state = "mutation_failed"
    /\ call.pc \in {"gate", "repo"} => call.i = 1
    /\ call.pc \in {"repo", "status"} => IsHelm
    /\ IsHelm => call.mutations \subseteq {Release}

\* Every step of the worker keeps them together.
LEMMA ExecutorStages == TypeInv /\ Stages /\ Executor => Stages'
<1> SUFFICES ASSUME TypeOK, Located, Stages, Executor PROVE Stages'
  BY DEF TypeInv
<1>H. IsHelm' = IsHelm /\ (IsHelm /\ call.pc = "await" => Changes[call.i] = Release)
  BY ChangesType, ExecutorFrame, SamePlan DEF Located
<1>1. CASE BeginDryRun
  BY <1>1, <1>H, BeginDryRunEffect DEF Stages, Staged, Fresh, Moved, Recorded
<1>2. CASE BeginMutation
  BY <1>2, <1>H, BeginMutationEffect DEF Stages, Staged, Fresh, Moved, Recorded
<1>3. CASE Rehearse
  BY <1>3, <1>H, RehearseEffect DEF Stages, Staged, Fresh, Moved, Recorded
<1>4. CASE RehearsalSucceeds
  BY <1>4, <1>H, RehearsalSucceedsEffect DEF Stages, Staged, Fresh, Moved, Recorded
<1>5. CASE RehearsalFails
  BY <1>5, <1>H, RehearsalFailsEffect DEF Stages, Staged, Fresh, Moved, Recorded
<1>6. CASE Refused
  BY <1>6, <1>H, RefusedEffect DEF Stages, Staged, Fresh, Moved, Recorded
<1>7. CASE AllExcluded
  BY <1>7, <1>H, AllExcludedEffect DEF Stages, Staged, Fresh, Moved, Recorded
<1>8. CASE Admitted
  BY <1>8, <1>H, AdmittedEffect DEF Stages, Staged, Fresh, Moved, Recorded
<1>9. CASE AddRepo
  BY <1>9, <1>H, AddRepoEffect DEF Stages, Staged, Fresh, Moved, Recorded
<1>10. CASE Send
  BY <1>10, <1>H, SendEffect DEF Stages, Staged, Fresh, Moved, Recorded
<1>11. CASE Answered
  BY <1>11, <1>H, AnsweredEffect DEF Stages, Staged, Fresh, Moved, Recorded
<1>12. CASE NotAnswered
  BY <1>12, <1>H, NotAnsweredEffect DEF Stages, Staged, Fresh, Moved, Recorded
<1>13. CASE Raised
  BY <1>13, <1>H, RaisedEffect DEF Stages, Staged, Fresh, Moved, Recorded
<1>14. CASE Status
  BY <1>14, <1>H, StatusEffect DEF Stages, Staged, Fresh, Moved, Recorded
<1>15. CASE Report
  BY <1>15, <1>H, ReportEffect DEF Stages, Staged, Fresh, Moved, Recorded
<1>16. CASE Retry
  BY <1>16, <1>H, RetryEffect DEF Stages, Staged, Fresh, Moved, Recorded
<1>17. CASE Crash
  BY <1>17, <1>H, CrashEffect DEF Stages, Staged, Fresh, Moved, Recorded
<1> QED
  BY <1>1, <1>2, <1>3, <1>4, <1>5, <1>6, <1>7, <1>8, <1>9, <1>10, <1>11, <1>12, <1>13, <1>14, <1>15, <1>16, <1>17 DEF Executor

\* Nobody else parts them.
LEMMA NextStages == TypeInv /\ Stages /\ [Next]_vars => Stages'
<1> SUFFICES ASSUME TypeInv, Stages, [Next]_vars PROVE Stages'
  OBVIOUS
<1>H. IsHelm' = IsHelm
  BY PlanStays, SamePlan
<1>1. CASE Servers
  BY <1>H, <1>1, ServerFrameCall DEF Stages
<1>2. CASE Reverter
  BY <1>H, <1>2, ReverterFrame DEF Stages
<1>3. CASE UNCHANGED vars
  BY <1>H, <1>3 DEF Stages, vars
<1> QED
  BY <1>1, <1>2, <1>3, ExecutorStages DEF Next

\* Nothing has begun.
LEMMA InitStages == Init => Stages
  BY DEF Init, Quiet, Calling, Stages

-----------------------------------------------------------------------------
(* What is accounted for.                                                   *)

\* The targets the step has changed or may still change.
Effects == landed \cup {t[1] : t \in sent}

\* What the observations tell, the call will tell, or the call waits for.
Known ==
    report.mutations \cup call.mutations
    \cup (IF call.pc = "await" THEN {Changes[call.i]} ELSE IF call.pc = "status" THEN {Release} ELSE {})

\* Every effect is known or declared unknown, unless a crash between the save
\* of a finished step and its report took the record away: then no decision is
\* asked for.
Account ==
    \/ Effects \subseteq Known
    \/ report.unknown
    \/ call.pc = "report" /\ call.unknown
    \/ call.pc = "idle" /\ step.state \in {"mutation_failed", "mutation_succeeded"}

\* The worker keeps the account: what it sends, it awaits and then records.
LEMMA ExecutorAccount == TypeInv /\ Stages /\ Account /\ Executor => Account'
<1> SUFFICES ASSUME TypeOK, Located, Stages, Account, Executor PROVE Account'
  BY DEF TypeInv
<1>H. IsHelm' = IsHelm /\ Changes' = Changes /\ (IsHelm /\ call.pc = "await" => Changes[call.i] = Release)
  BY ChangesType, ExecutorFrame, SamePlan DEF Located
<1>F. /\ landed' = landed
      /\ Send \/ sent' = sent
      /\ Report \/ Crash \/ report' = report
  BY ExecutorFrame
<1>1. CASE BeginDryRun
  <2>1. Effects' = Effects
    BY <1>1, <1>F DEF Effects, BeginDryRun, Begin
  <2> QED
    BY <1>1, <1>H, <1>F, <2>1, BeginDryRunEffect
    DEF Account, Known, Stages, Staged, Fresh, Moved, Recorded, BeginDryRun, Begin
<1>2. CASE BeginMutation
  <2>1. Effects' = Effects
    BY <1>2, <1>F DEF Effects, BeginMutation, Begin
  <2> QED
    BY <1>2, <1>H, <1>F, <2>1, BeginMutationEffect
    DEF Account, Known, Stages, Staged, Fresh, Moved, Recorded, BeginMutation, Begin
<1>3. CASE Rehearse
  <2>1. Effects' = Effects
    BY <1>3, <1>F DEF Effects, Rehearse
  <2> QED
    BY <1>3, <1>H, <1>F, <2>1, RehearseEffect
    DEF Account, Known, Stages, Staged, Fresh, Moved, Recorded, Rehearse
<1>4. CASE RehearsalSucceeds
  <2>1. Effects' = Effects
    BY <1>4, <1>F DEF Effects, RehearsalSucceeds
  <2> QED
    BY <1>4, <1>H, <1>F, <2>1, RehearsalSucceedsEffect
    DEF Account, Known, Stages, Staged, Fresh, Moved, Recorded, RehearsalSucceeds
<1>5. CASE RehearsalFails
  <2>1. Effects' = Effects
    BY <1>5, <1>F DEF Effects, RehearsalFails
  <2> QED
    BY <1>5, <1>H, <1>F, <2>1, RehearsalFailsEffect
    DEF Account, Known, Stages, Staged, Fresh, Moved, Recorded, RehearsalFails
<1>6. CASE Refused
  <2>1. Effects' = Effects
    BY <1>6, <1>F DEF Effects, Refused
  <2> QED
    BY <1>6, <1>H, <1>F, <2>1, RefusedEffect
    DEF Account, Known, Stages, Staged, Fresh, Moved, Recorded, Refused
<1>7. CASE AllExcluded
  <2>1. Effects' = Effects
    BY <1>7, <1>F DEF Effects, AllExcluded
  <2> QED
    BY <1>7, <1>H, <1>F, <2>1, AllExcludedEffect
    DEF Account, Known, Stages, Staged, Fresh, Moved, Recorded, AllExcluded
<1>8. CASE Admitted
  <2>1. Effects' = Effects
    BY <1>8, <1>F DEF Effects, Admitted
  <2> QED
    BY <1>8, <1>H, <1>F, <2>1, AdmittedEffect
    DEF Account, Known, Stages, Staged, Fresh, Moved, Recorded, Admitted
<1>9. CASE AddRepo
  <2>1. Effects' = Effects
    BY <1>9, <1>F DEF Effects, AddRepo
  <2> QED
    BY <1>9, <1>H, <1>F, <2>1, AddRepoEffect
    DEF Account, Known, Stages, Staged, Fresh, Moved, Recorded, AddRepo
<1>10. CASE Send
  <2>1. PICK k \in DOMAIN Changes : /\ sent' = sent \cup {<<Changes[k], step.attempts>>}
                                   /\ Moved("await", k, call.mutations)
    BY <1>10, SendEffect
  <2>2. Effects' = Effects \cup {Changes[k]}
    <3> DEFINE t0 == <<Changes[k], step.attempts>>
    <3>1. t0[1] = Changes[k]
      OBVIOUS
    <3> HIDE DEF t0
    <3>2. {t[1] : t \in sent \cup {t0}} = {t[1] : t \in sent} \cup {t0[1]}
      OBVIOUS
    <3>3. sent' = sent \cup {t0}
      BY <2>1 DEF t0
    <3> QED
      BY <1>F, <3>1, <3>2, <3>3 DEF Effects
  <2>3. report' = report /\ call.pc = "send"
    BY <1>10 DEF Send
  <2>4. Known' = Known \cup {Changes[k]}
    BY <1>H, <2>1, <2>3 DEF Known, Moved
  <2>5. call.unknown = FALSE
    BY <2>3 DEF Stages, TypeOK, CallRecord
  <2> QED
    BY <2>2, <2>3, <2>4, <2>5 DEF Account
<1>11. CASE Answered
  <2>1. Effects' = Effects
    BY <1>11, <1>F DEF Effects, Answered
  <2> QED
    BY <1>11, <1>H, <1>F, <2>1, AnsweredEffect
    DEF Account, Known, Stages, Staged, Fresh, Moved, Recorded, Answered
<1>12. CASE NotAnswered
  <2>1. Effects' = Effects
    BY <1>12, <1>F DEF Effects, NotAnswered
  <2> QED
    BY <1>12, <1>H, <1>F, <2>1, NotAnsweredEffect
    DEF Account, Known, Stages, Staged, Fresh, Moved, Recorded, NotAnswered
<1>13. CASE Raised
  <2>1. Effects' = Effects
    BY <1>13, <1>F DEF Effects, Raised
  <2> QED
    BY <1>13, <1>H, <1>F, <2>1, RaisedEffect
    DEF Account, Known, Stages, Staged, Fresh, Moved, Recorded, Raised
<1>14. CASE Status
  <2>1. Effects' = Effects
    BY <1>14, <1>F DEF Effects, Status
  <2> QED
    BY <1>14, <1>H, <1>F, <2>1, StatusEffect
    DEF Account, Known, Stages, Staged, Fresh, Moved, Recorded, Status
<1>15. CASE Report
  <2>1. Effects' = Effects
    BY <1>15, <1>F DEF Effects, Report
  <2> QED
    BY <1>15, <1>H, <1>F, <2>1, ReportEffect
    DEF Account, Known, Stages, Staged, Fresh, Moved, Recorded
<1>16. CASE Retry
  <2>1. Effects' = Effects
    BY <1>16, <1>F DEF Effects, Retry
  <2> QED
    BY <1>16, <1>H, <1>F, <2>1, RetryEffect
    DEF Account, Known, Stages, Staged, Fresh, Moved, Recorded, Retry
<1>17. CASE Crash
  <2>1. Effects' = Effects
    BY <1>17, <1>F DEF Effects, Crash
  <2>2. /\ call.pc # "idle" /\ Fresh("idle", {}, FALSE)
        /\ report'.mutations = report.mutations /\ (report.unknown => report'.unknown)
    BY <1>17, CrashEffect
  <2>3. CASE step.state = "mutation_running" \/ report.unknown
    BY <1>17, <2>2, <2>3, CrashEffect DEF Account
  <2>4. CASE step.state \notin {"mutation_running", "mutation_failed", "mutation_succeeded"}
    <3>1. call.mutations = {} /\ ~call.unknown /\ call.pc \in {"rehearse", "report"}
      BY <2>2, <2>4 DEF Stages, TypeOK, CallRecord
    <3>2. Known' = Known
      BY <2>2, <3>1 DEF Known, Fresh
    <3>3. Effects \subseteq Known \/ report.unknown
      BY <2>2, <3>1 DEF Account
    <3> QED
      BY <2>1, <2>2, <3>2, <3>3 DEF Account
  <2>5. CASE step.state \in {"mutation_failed", "mutation_succeeded"}
    <3>1. step' = step
      BY <1>17, <2>5, CrashEffect
    <3> QED
      BY <2>2, <2>5, <3>1 DEF Account, Fresh
  <2> QED
    BY <2>3, <2>4, <2>5
<1> QED
  BY <1>1, <1>2, <1>3, <1>4, <1>5, <1>6, <1>7, <1>8, <1>9, <1>10, <1>11, <1>12, <1>13, <1>14, <1>15, <1>16, <1>17 DEF Executor

\* A server only does what was sent.
LEMMA ServerEffects == TypeInv /\ Servers => Effects' \subseteq Effects
<1> SUFFICES ASSUME TypeInv, Servers PROVE Effects' \subseteq Effects
  OBVIOUS
<1>1. CASE FinishInstall
  BY <1>1 DEF FinishInstall, Effects
<1>2. ASSUME NEW t \in sent, Apply(t) PROVE Effects' \subseteq Effects
  BY <1>2 DEF Apply, Effects
<1>3. ASSUME NEW t \in sent, StartInstall(t) PROVE Effects' \subseteq Effects
  BY <1>3 DEF StartInstall, Effects
<1>4. ASSUME NEW t \in sent, Refuse(t) \/ Lose(t) PROVE Effects' \subseteq Effects
  BY <1>4 DEF Refuse, Lose, Effects
<1> QED
  BY <1>1, <1>2, <1>3, <1>4 DEF Servers

\* Nobody loses the account.
LEMMA NextAccount == TypeInv /\ Stages /\ Account /\ [Next]_vars => Account'
<1> SUFFICES ASSUME TypeInv, Stages, Account, [Next]_vars PROVE Account'
  OBVIOUS
<1>H. Changes' = Changes
  BY PlanStays, SamePlan
<1>1. CASE Servers
  <2>1. Known' = Known
    BY <1>H, <1>1, ServerFrameCall DEF Known
  <2> QED
    BY <1>1, <2>1, ServerEffects, ServerFrameCall DEF Account
<1>2. CASE Reverter
  BY <1>H, <1>2, ReverterFrame DEF Account, Known, Effects
<1>3. CASE UNCHANGED vars
  BY <1>H, <1>3 DEF Account, Known, Effects, vars, history
<1> QED
  BY <1>1, <1>2, <1>3, ExecutorAccount DEF Next

\* Whoever is asked for a decision on the step finds each object it changed
\* recorded, or the outcome declared unknown: MutationExecutor records a target
\* with the request, and reconcile_after_restart declares what a crash left.
THEOREM EffectsAreAccounted == Spec => []EffectsAccounted
<1>1. Init => Account
  BY DEF Init, Account, Effects
<1>2. TypeInv /\ Stages /\ Account => EffectsAccounted
  <2> SUFFICES ASSUME TypeInv, Stages, Account, step.state = "decision_required"
               PROVE  landed \subseteq report.mutations \/ report.unknown
    BY DEF EffectsAccounted
  <2>1. call.pc = "idle" /\ call.mutations = {}
    BY DEF Stages, TypeInv, TypeOK, CallRecord
  <2> QED
    BY <2>1 DEF Account, Effects, Known
<1> QED
  BY InitTypeInv, NextTypeInv, InitStages, NextStages, <1>1, NextAccount, <1>2, PTL DEF Spec

-----------------------------------------------------------------------------
(* What may reach the cluster.                                              *)

Barred == Excluded \cup OutOfScope \cup Secrets

\* Rehearsals go in order, what is on its way was admitted, and a step that
\* counts as rehearsed is.
Rehearsals ==
    /\ step.dry = "dry_run_succeeded" => Wanted \subseteq rehearsed
    /\ call.pc = "rehearse" =>
           \A k \in DOMAIN Previews : k < call.i /\ Previews[k] \notin Excluded => Previews[k] \in rehearsed
    /\ call.pc \in {"repo", "send", "await"} => Wanted \subseteq rehearsed \ Barred
    /\ \A t \in sent : t[1] \in rehearsed \ Barred
    /\ landed \subseteq rehearsed \ Barred

\* What a step wants is not excluded, and is previewed first.
LEMMA WantedPreviewed ==
  ASSUME TypeOK
  PROVE  /\ \A w \in Wanted : w \notin Excluded /\ \E k \in DOMAIN Previews : Previews[k] = w
         /\ \A i \in Nat \ {0} : \A k \in Left(Changes, i) : Changes[k] \in Wanted
         /\ \A i \in Nat : Left(Previews, i) = {} =>
                \A k \in DOMAIN Previews : Previews[k] \notin Excluded => k < i
<1>1. \A w \in Wanted : w \notin Excluded /\ \E k \in DOMAIN Previews : Previews[k] = w
  <2>1. ASSUME NEW w \in Wanted PROVE w \notin Excluded
    BY DEF Wanted, Left
  <2>2. ASSUME NEW w \in Wanted PROVE \E k \in DOMAIN Previews : Previews[k] = w
    <3>1. CASE IsHelm
      <4>1. w = Release
        BY <3>1, ChangesType DEF Wanted, Left
      <4>2. Previews = <<"template", Release>>
        BY <3>1 DEF Previews
      <4>3. 2 \in DOMAIN Previews /\ Previews[2] = Release
        BY <4>2
      <4> QED
        BY <4>1, <4>3
    <3>2. CASE ~IsHelm
      BY <3>2, ChangesType DEF Wanted, Left
    <3> QED
      BY <3>1, <3>2
  <2> QED
    BY <2>1, <2>2
<1>2. \A i \in Nat \ {0} : \A k \in Left(Changes, i) : Changes[k] \in Wanted
  BY ChangesType DEF Wanted, Left
<1>3. \A i \in Nat : Left(Previews, i) = {} =>
          \A k \in DOMAIN Previews : Previews[k] \notin Excluded => k < i
  BY ChangesType DEF Left
<1> QED
  BY <1>1, <1>2, <1>3

\* The worker rehearses before it sends.
LEMMA ExecutorRehearsals == TypeInv /\ Stages /\ Rehearsals /\ Executor => Rehearsals'
<1> SUFFICES ASSUME TypeOK, Located, Stages, Rehearsals, Executor PROVE Rehearsals'
  BY DEF TypeInv
<1>H. Wanted' = Wanted /\ Changes' = Changes /\ Previews' = Previews
  BY ExecutorFrame, SamePlan
<1>F. /\ landed' = landed
      /\ Send \/ sent' = sent
      /\ Rehearse \/ rehearsed' = rehearsed
  BY ExecutorFrame
<1>I. call.i \in Nat \ {0}
  BY DEF TypeOK, CallRecord
<1>1. CASE BeginDryRun
  <2>1. \A k \in DOMAIN Previews : ~(k < 1)
    BY ChangesType
  <2> QED
    BY <1>1, <1>H, <1>F, <2>1, BeginDryRunEffect DEF Rehearsals, Fresh, Staged, BeginDryRun, Begin, history
<1>2. CASE BeginMutation
  BY <1>2, <1>H, <1>F, BeginMutationEffect DEF Rehearsals, Fresh, Moved, Staged, BeginMutation, Begin, history
<1>3. CASE Rehearse
  <2>1. PICK k \in DOMAIN Previews : /\ IsFirst(k, Left(Previews, call.i))
                                    /\ rehearsed' = rehearsed \cup {Previews[k]}
                                    /\ Moved("rehearse", k + 1, call.mutations)
    BY <1>3, RehearseEffect
  <2>2. call.pc = "rehearse" /\ step' = step /\ sent' = sent
    BY <1>3 DEF Rehearse
  <2>3. ASSUME NEW l \in DOMAIN Previews, l < k + 1, Previews[l] \notin Excluded
        PROVE  Previews[l] \in rehearsed'
    <3>0. k \in Nat /\ l \in Nat
      BY ChangesType
    <3>1. CASE l < call.i
      BY <2>1, <2>2, <2>3, <3>1 DEF Rehearsals
    <3>2. CASE l >= call.i
      <4>1. l \in Left(Previews, call.i)
        BY <2>3, <3>2 DEF Left
      <4>2. l = k
        BY <2>1, <2>3, <3>0, <4>1 DEF IsFirst
      <4> QED
        BY <2>1, <4>2
    <3> QED
      BY <1>I, <3>0, <3>1, <3>2
  <2> QED
    BY <1>H, <1>F, <2>1, <2>2, <2>3 DEF Rehearsals, Moved
<1>4. CASE RehearsalSucceeds
  <2>1. Wanted \subseteq rehearsed
    <3>1. call.pc = "rehearse" /\ Left(Previews, call.i) = {}
      BY <1>4, RehearsalSucceedsEffect
    <3>2. \A k \in DOMAIN Previews : Previews[k] \notin Excluded => Previews[k] \in rehearsed
      BY <1>I, <3>1, WantedPreviewed DEF Rehearsals
    <3> QED
      BY <3>2, WantedPreviewed
  <2> QED
    BY <1>4, <1>H, <1>F, <2>1, RehearsalSucceedsEffect DEF Rehearsals, Fresh, Staged, RehearsalSucceeds, history
<1>5. CASE RehearsalFails
  BY <1>5, <1>H, <1>F, RehearsalFailsEffect DEF Rehearsals, Fresh, Moved, Staged, RehearsalFails, history
<1>6. CASE Refused
  BY <1>6, <1>H, <1>F, RefusedEffect DEF Rehearsals, Fresh, Moved, Staged, Refused, history
<1>7. CASE AllExcluded
  BY <1>7, <1>H, <1>F, AllExcludedEffect DEF Rehearsals, Fresh, Moved, Staged, AllExcluded, history
<1>8. CASE Admitted
  <2>1. Wanted \subseteq rehearsed \ Barred
    BY <1>8, AdmittedEffect, WantedPreviewed
    DEF PolicyAllows, InScope, NoSecrets, Rehearsals, Barred
  <2> QED
    BY <1>8, <1>H, <1>F, <2>1, AdmittedEffect DEF Rehearsals, Moved, Admitted, history
<1>9. CASE AddRepo
  BY <1>9, <1>H, <1>F, AddRepoEffect DEF Rehearsals, Fresh, Moved, Staged, AddRepo, history
<1>10. CASE Send
  <2>1. PICK k \in DOMAIN Changes : /\ IsFirst(k, Left(Changes, call.i))
                                   /\ sent' = sent \cup {<<Changes[k], step.attempts>>}
                                   /\ Moved("await", k, call.mutations)
    BY <1>10, SendEffect
  <2>2. call.pc = "send" /\ step' = step /\ rehearsed' = rehearsed
    BY <1>10 DEF Send, history
  <2>3. Changes[k] \in Wanted
    BY <1>I, <2>1, WantedPreviewed DEF IsFirst
  <2>4. Wanted \subseteq rehearsed \ Barred
    BY <2>2 DEF Rehearsals
  <2>5. \A t \in sent' : t[1] \in rehearsed' \ Barred
    BY <2>1, <2>2, <2>3, <2>4 DEF Rehearsals
  <2> QED
    BY <1>H, <1>F, <2>1, <2>2, <2>4, <2>5 DEF Rehearsals, Moved
<1>11. CASE Answered
  BY <1>11, <1>H, <1>F, AnsweredEffect DEF Rehearsals, Fresh, Moved, Staged, Answered, history
<1>12. CASE NotAnswered
  BY <1>12, <1>H, <1>F, NotAnsweredEffect DEF Rehearsals, Fresh, Moved, Staged, NotAnswered, history
<1>13. CASE Raised
  BY <1>13, <1>H, <1>F, RaisedEffect DEF Rehearsals, Fresh, Moved, Staged, Raised, history
<1>14. CASE Status
  BY <1>14, <1>H, <1>F, StatusEffect DEF Rehearsals, Fresh, Moved, Staged, Status, history
<1>15. CASE Report
  BY <1>15, <1>H, <1>F, ReportEffect DEF Rehearsals, Fresh, Moved, Staged, Report, history
<1>16. CASE Retry
  BY <1>16, <1>H, <1>F, RetryEffect DEF Rehearsals, Fresh, Moved, Staged, Retry, history
<1>17. CASE Crash
  BY <1>17, <1>H, <1>F, CrashEffect DEF Rehearsals, Fresh, Moved, Staged, Crash, history
<1> QED
  BY <1>1, <1>2, <1>3, <1>4, <1>5, <1>6, <1>7, <1>8, <1>9, <1>10, <1>11, <1>12, <1>13, <1>14, <1>15, <1>16, <1>17 DEF Executor

\* A server does what was sent, and nobody else does anything.
LEMMA NextRehearsals == TypeInv /\ Stages /\ Rehearsals /\ [Next]_vars => Rehearsals'
<1> SUFFICES ASSUME TypeInv, Stages, Rehearsals, [Next]_vars PROVE Rehearsals'
  OBVIOUS
<1>H. Wanted' = Wanted /\ Previews' = Previews
  BY PlanStays, SamePlan
<1>1. CASE Servers
  <2>1. /\ step' = step /\ rehearsed' = rehearsed
        /\ call'.pc = call.pc /\ call'.i = call.i
    BY <1>1, ServerFrameCall
  <2>2. sent' \subseteq sent
    BY <1>1 DEF Servers, FinishInstall, Apply, StartInstall, Refuse, Lose
  <2>3. landed' \subseteq landed \cup {t[1] : t \in sent}
    BY <1>1, ServerEffects DEF Effects
  <2> QED
    BY <1>H, <2>1, <2>2, <2>3 DEF Rehearsals
<1>2. CASE Reverter
  BY <1>H, <1>2, ReverterFrame DEF Rehearsals
<1>3. CASE UNCHANGED vars
  BY <1>H, <1>3 DEF Rehearsals, vars, history
<1> QED
  BY <1>1, <1>2, <1>3, ExecutorRehearsals DEF Next

\* Whatever reaches the cluster, also long after its sender gave it up, was
\* rehearsed and is neither excluded nor held back by the policy's guards
\* (DryRunExecutor.execute, _manifest_excluded and evaluate_policy).
THEOREM NothingUnrehearsedLands == Spec => []OnlyRehearsed
<1>1. Init => Rehearsals
  BY DEF Init, Quiet, Calling, Rehearsals
<1>2. Rehearsals => OnlyRehearsed
  BY DEF Rehearsals, OnlyRehearsed, Barred
<1> QED
  BY InitTypeInv, NextTypeInv, InitStages, NextStages, <1>1, NextRehearsals, <1>2, PTL DEF Spec

-----------------------------------------------------------------------------
(* What counts as done.                                                     *)

\* The requests go in order; an answer tells of its own request; and where no
\* release was deployed before, a deployed one is the step's.
Progress ==
    /\ call.pc \in {"send", "await"} =>
           \A k \in DOMAIN Changes : k < call.i /\ Changes[k] \notin Excluded => Changes[k] \in done
    /\ call.pc = "await" /\ call.reply = "ok" => Changes[call.i] \in done
    /\ ~plan.upgrade =>
           /\ cluster.release # "old" /\ cluster.was # "old"
           /\ "new" \in {cluster.release, cluster.was} => Release \in done
    /\ SuccessIsReal

\* The worker goes from request to request, and succeeds with the last.
LEMMA ExecutorProgress == TypeInv /\ Stages /\ Progress /\ Executor => Progress'
<1> SUFFICES ASSUME TypeOK, Located, Stages, Progress, Executor PROVE Progress'
  BY DEF TypeInv
<1>H. Wanted' = Wanted /\ Changes' = Changes /\ IsHelm' = IsHelm
  BY ExecutorFrame, SamePlan
<1>F. plan' = plan /\ cluster' = cluster /\ done' = done
  BY ExecutorFrame
<1>I. call.i \in Nat \ {0} /\ \A k \in DOMAIN Changes : k \in Nat \ {0}
  BY ChangesType DEF TypeOK, CallRecord
<1>Q. ASSUME call'.pc \notin {"send", "await"}, SuccessIsReal' PROVE Progress'
  BY <1>H, <1>F, <1>Q DEF Progress
<1>S. ASSUME step'.state # "mutation_succeeded" \/ step'.state = step.state PROVE SuccessIsReal'
  BY <1>H, <1>F, <1>S DEF Progress, SuccessIsReal
<1>1. CASE BeginDryRun
  BY <1>1, <1>Q, <1>S, BeginDryRunEffect DEF Fresh, Moved, Staged
<1>2. CASE BeginMutation
  BY <1>2, <1>Q, <1>S, BeginMutationEffect DEF Fresh, Moved, Staged
<1>3. CASE Rehearse
  BY <1>3, <1>Q, <1>S, RehearseEffect DEF Fresh, Moved, Staged
<1>4. CASE RehearsalSucceeds
  BY <1>4, <1>Q, <1>S, RehearsalSucceedsEffect DEF Fresh, Moved, Staged
<1>5. CASE RehearsalFails
  BY <1>5, <1>Q, <1>S, RehearsalFailsEffect DEF Fresh, Moved, Staged
<1>6. CASE Refused
  BY <1>6, <1>Q, <1>S, RefusedEffect DEF Fresh, Moved, Staged
<1>7. CASE AllExcluded
  BY <1>7, <1>H, <1>Q, AllExcludedEffect DEF SuccessIsReal, Fresh
<1>8. CASE Admitted
  <2>1. SuccessIsReal'
    BY <1>8, <1>S, AdmittedEffect DEF Staged
  <2>2. call'.pc # "await" /\ (call'.pc = "send" => call'.i = 1)
    BY <1>8, AdmittedEffect DEF Stages, Moved, Fresh
  <2> QED
    BY <1>H, <1>F, <1>I, <2>1, <2>2 DEF Progress
<1>9. CASE AddRepo
  <2>1. SuccessIsReal'
    BY <1>9, <1>S, AddRepoEffect DEF Staged
  <2>2. call'.pc # "await" /\ (call'.pc = "send" => call'.i = 1)
    BY <1>9, AddRepoEffect DEF Stages, Moved, Fresh
  <2> QED
    BY <1>H, <1>F, <1>I, <2>1, <2>2 DEF Progress
<1>10. CASE Send
  <2>1. SuccessIsReal'
    BY <1>10, <1>S, SendEffect
  <2>2. PICK k \in DOMAIN Changes : IsFirst(k, Left(Changes, call.i)) /\ Moved("await", k, call.mutations)
    BY <1>10, SendEffect
  <2>3. call.pc = "send" /\ call'.reply = "none"
    BY <1>10, SendEffect
  <2>4. ASSUME NEW l \in DOMAIN Changes, l < k, Changes[l] \notin Excluded PROVE Changes[l] \in done
    <3>1. l \notin Left(Changes, call.i)
      BY <1>I, <2>2, <2>4 DEF IsFirst
    <3>2. l < call.i
      BY <1>I, <2>4, <3>1 DEF Left
    <3> QED
      BY <2>3, <2>4, <3>2 DEF Progress
  <2> QED
    BY <1>H, <1>F, <2>1, <2>2, <2>3, <2>4 DEF Progress, Moved
<1>11. CASE Answered
  <2>1. call.pc = "await" /\ call.reply = "ok"
    BY <1>11, AnsweredEffect
  <2>2. ASSUME NEW k \in DOMAIN Changes, k < call.i + 1, Changes[k] \notin Excluded PROVE Changes[k] \in done
    <3>1. k < call.i \/ k = call.i
      BY <1>I, <2>2
    <3> QED
      BY <2>1, <2>2, <3>1 DEF Progress
  <2>3. CASE Left(Changes, call.i + 1) = {} /\ Fresh("report", Recorded, FALSE)
    <3>1. Wanted \subseteq done
      BY <1>I, <2>2, <2>3 DEF Wanted, Left
    <3> QED
      BY <1>H, <1>F, <1>Q, <2>3, <3>1 DEF SuccessIsReal, Fresh
  <2>4. CASE step' = step /\ Moved("send", call.i + 1, Recorded)
    BY <1>H, <1>F, <1>S, <2>2, <2>4 DEF Progress, Moved
  <2> QED
    BY <1>11, <2>3, <2>4, AnsweredEffect
<1>12. CASE NotAnswered
  BY <1>12, <1>Q, <1>S, NotAnsweredEffect DEF Fresh, Moved, Staged
<1>13. CASE Raised
  BY <1>13, <1>Q, <1>S, RaisedEffect DEF Fresh, Moved, Staged
<1>14. CASE Status
  <2>1. SuccessIsReal'
    <3>1. CASE step'.state # "mutation_succeeded"
      BY <3>1, <1>S
    <3>2. CASE step'.state = "mutation_succeeded"
      <4>1. IsHelm /\ cluster.release \in Deployed
        BY <1>14, <3>2, StatusEffect DEF Stages, Staged
      <4>2. Wanted \subseteq {Release}
        BY <4>1, ChangesType DEF Wanted, Left
      <4>3. ~plan.upgrade => Release \in done
        BY <4>1 DEF Deployed, Progress
      <4> QED
        BY <1>H, <1>F, <4>2, <4>3, <4>1 DEF SuccessIsReal
    <3> QED
      BY <3>1, <3>2
  <2> QED
    BY <1>14, <1>Q, <2>1, StatusEffect DEF Fresh
<1>15. CASE Report
  BY <1>15, <1>Q, <1>S, ReportEffect DEF Fresh, Moved, Staged
<1>16. CASE Retry
  <2>1. SuccessIsReal' /\ call' = call
    BY <1>16, <1>S, RetryEffect DEF Staged
  <2> QED
    BY <1>H, <1>F, <2>1 DEF Progress
<1>17. CASE Crash
  BY <1>17, <1>Q, <1>S, CrashEffect DEF Fresh, Moved, Staged
<1> QED
  BY <1>1, <1>2, <1>3, <1>4, <1>5, <1>6, <1>7, <1>8, <1>9, <1>10, <1>11, <1>12, <1>13, <1>14, <1>15, <1>16, <1>17 DEF Executor

\* An answer comes with the change it tells of.
LEMMA ServerProgress == TypeInv /\ Progress /\ Servers => Progress'
<1> SUFFICES ASSUME TypeOK, Located, Progress, Servers PROVE Progress'
  BY DEF TypeInv
<1>C. /\ plan' = plan /\ step' = step /\ call'.pc = call.pc /\ call'.i = call.i
  BY ServerFrameCall DEF TypeInv
<1>H. Wanted' = Wanted /\ Changes' = Changes /\ IsHelm' = IsHelm
  BY <1>C, SamePlan
<1>Q. ASSUME done \subseteq done',
             call'.reply = "ok" => call.reply = "ok" \/ Changes[call.i] \in done' \/ call.pc # "await",
             ~plan.upgrade => /\ cluster'.release # "old" /\ cluster'.was # "old"
                              /\ "new" \in {cluster'.release, cluster'.was} => Release \in done'
      PROVE  Progress'
  BY <1>C, <1>H, <1>Q DEF Progress, SuccessIsReal
<1>R. ASSUME NEW t, NEW r, Reply(t, r), call'.reply = "ok"
      PROVE  call.reply = "ok" \/ (r = "ok" /\ call.pc = "await" /\ t[1] = Changes[call.i])
  <2>1. CASE Expected(t)
    <3>1. call.pc = "await" /\ t[1] = Changes[call.i]
      BY <2>1 DEF Expected, Token
    <3>2. call' = [call EXCEPT !.reply = r]
      BY <1>R, <2>1 DEF Reply
    <3> QED
      BY <1>R, <3>1, <3>2 DEF TypeOK, CallRecord
  <2>2. CASE ~Expected(t)
    <3>1. call' = call
      BY <1>R, <2>2, Zenon DEF Reply
    <3> QED
      BY <1>R, <3>1
  <2> QED
    BY <2>1, <2>2
<1>K. cluster \in ClusterRecord
  BY DEF TypeOK
<1>1. CASE FinishInstall
  <2>1. CASE /\ cluster' = [cluster EXCEPT !.release = "new", !.by = Nobody]
             /\ Reply(cluster.by, "ok")
             /\ done' = done \cup {Release}
    <3>1. cluster'.release = "new" /\ cluster'.was = cluster.was
      BY <2>1, <1>K DEF ClusterRecord
    <3>2. cluster.by[1] = Release
      BY <1>1 DEF FinishInstall, Located
    <3> QED
      BY <1>Q, <1>R, <2>1, <3>1, <3>2 DEF Progress
  <2>2. CASE /\ \E r \in {"failed", cluster.was} : cluster' = [cluster EXCEPT !.release = r, !.by = Nobody]
             /\ Reply(cluster.by, "refused")
             /\ UNCHANGED done
    <3>1. cluster'.release \in {"failed", cluster.was} /\ cluster'.was = cluster.was
      BY <2>2, <1>K DEF ClusterRecord
    <3> QED
      BY <1>Q, <1>R, <2>2, <3>1 DEF Progress
  <2> QED
    BY <1>1, <2>1, <2>2 DEF FinishInstall
<1>2. ASSUME NEW t \in sent, Apply(t) PROVE Progress'
  <2>1. cluster'.release = cluster.release /\ cluster'.was = cluster.was
    BY <1>2, <1>K DEF Apply, ClusterRecord
  <2>2. done' = done \cup {t[1]} /\ Reply(t, "ok")
    BY <1>2 DEF Apply
  <2> QED
    BY <1>Q, <1>R, <2>1, <2>2 DEF Progress
<1>3. ASSUME NEW t \in sent, StartInstall(t) PROVE Progress'
  <2>1. cluster'.release = "pending" /\ cluster'.was = cluster.release
    BY <1>3, <1>K DEF StartInstall, ClusterRecord
  <2> QED
    BY <1>3, <1>Q, <2>1 DEF StartInstall, Progress
<1>4. ASSUME NEW t \in sent, Refuse(t) PROVE Progress'
  BY <1>4, <1>Q, <1>R DEF Refuse, Progress
<1>5. ASSUME NEW t \in sent, Lose(t) PROVE Progress'
  BY <1>5, <1>Q DEF Lose, Progress
<1> QED
  BY <1>1, <1>2, <1>3, <1>4, <1>5 DEF Servers

\* A revert brings an old release back only where there was one.
LEMMA NextProgress == TypeInv /\ Stages /\ Progress /\ [Next]_vars => Progress'
<1> SUFFICES ASSUME TypeInv, Stages, Progress, [Next]_vars PROVE Progress'
  OBVIOUS
<1>H. Wanted' = Wanted /\ Changes' = Changes /\ IsHelm' = IsHelm /\ plan' = plan
  BY PlanStays, SamePlan
<1>1. CASE Reverter
  <2>1. UNCHANGED <<plan, step, call, done>>
    BY <1>1, ReverterFrame
  <2>2. \/ cluster' = cluster
        \/ cluster'.release = cluster.release /\ cluster'.was = cluster.was
        \/ cluster'.was = "absent" /\ (cluster'.release = "absent" \/ (cluster'.release = "old" /\ plan.upgrade))
    <3>1. CASE Uninstall
      <4>1. PICK o \in Outcomes, r \in {"absent"} \cup (IF plan.upgrade THEN {"old"} ELSE {}) :
               cluster' = IF o.deleted THEN [cluster EXCEPT !.release = r, !.was = "absent", !.by = Nobody]
                          ELSE cluster
        BY <3>1 DEF Uninstall
      <4>2. r = "absent" \/ (r = "old" /\ plan.upgrade)
        <5>1. CASE plan.upgrade
          BY <4>1, <5>1
        <5>2. CASE ~plan.upgrade
          <6>1. (IF plan.upgrade THEN {"old"} ELSE {}) = {}
            BY <5>2, Zenon
          <6> QED
            BY <4>1, <6>1
        <5> QED
          BY <5>1, <5>2
      <4> QED
        BY <4>1, <4>2 DEF TypeInv, TypeOK, ClusterRecord
    <3>2. CASE DeleteCollection
      BY <3>2 DEF DeleteCollection, TypeInv, TypeOK, ClusterRecord
    <3> QED
      BY <1>1, <3>1, <3>2 DEF Reverter, BeginRevert, RollbackUnauthorized, ListReleases, EndRevert
  <2> QED
    BY <1>H, <2>1, <2>2 DEF Progress, SuccessIsReal
<1>2. CASE UNCHANGED vars
  BY <1>H, <1>2 DEF Progress, SuccessIsReal, vars, history
<1> QED
  BY <1>1, <1>2, ExecutorProgress, ServerProgress DEF Next

\* A step that is declared done was applied manifest by manifest, or its
\* release is deployed, unless it upgrades a release
\* (MutationExecutor._execute_k8s_apply, _execute_helm and its look at the
\* release after an ambiguous failure).
THEOREM SuccessIsEarned == Spec => []SuccessIsReal
<1>1. Init => Progress
  BY DEF Init, Quiet, Calling, Progress, SuccessIsReal
<1>2. Progress => SuccessIsReal
  BY DEF Progress
<1> QED
  BY InitTypeInv, NextTypeInv, InitStages, NextStages, <1>1, NextProgress, <1>2, PTL DEF Spec
=============================================================================
