---------------------------- MODULE EffectProofs ----------------------------
(***************************************************************************)
(* Theorems about what the client calls of a deploy leave in the cluster,  *)
(* in CanaryDeploy: when it reports Promoted the service is new, when it   *)
(* reports a rollback without failed steps the service is old, for any     *)
(* attempts, lost replies, crashes and cancellations on the way; and       *)
(* deploys that overlap leave a service whole.                             *)
(***************************************************************************)
EXTENDS GateProofs, CanaryRefinement, FiniteSetTheorems

-----------------------------------------------------------------------------
(* The control invariant: how w came to where it stands.                   *)

RollbackStatuses == {"RolledBack", "TimedOut"}

\* The steps w has behind it succeeded.
Behind(w) ==
  /\ pc[w] \in {"HealthCheck", "ShiftTraffic", "Gate", "RecordApproval", "Promote"}
       => activity[w]["ScaleCanary"] = "ok"
  /\ pc[w] \in {"Gate", "RecordApproval", "Promote"} => activity[w]["ShiftTraffic"] = "ok"
  /\ activity[w]["ShiftTraffic"] = "ok" => "traffic" \notin input[w].Simulate
  /\ activity[w]["Promote"] # "none"
       => pc[w] \in Compensations \cup Closed \cup {"Promote", "Alert"}
  /\ pc[w] \in {"Failed", "Canceled"} => activity[w]["PolicyCheck"] # "ok"
  /\ activity[w]["ScaleCanary"] # "none" => activity[w]["PolicyCheck"] = "ok"
  /\ activity[w]["ShiftTraffic"] # "none" => activity[w]["ScaleCanary"] = "ok"

\* The status says on which path w is, and what has led there.
Path(w) ==
  /\ status[w] = "none" => pc[w] \in Forward \cup {"Idle", "Gate", "Failed", "Canceled"}
  /\ status[w] = "PolicyRejected" =>
       /\ pc[w] \in {"Alert", "Completed"}
       /\ activity[w]["PolicyCheck"] = "rejected"
  /\ status[w] = "Promoted" =>
       /\ pc[w] = "Completed"
       /\ \A a \in Mutating : activity[w][a] = "ok"
       /\ \A c \in Compensations : activity[w][c] = "none"
  /\ status[w] \in RollbackStatuses =>
       /\ pc[w] \in Compensations \cup {"Alert", "Completed"}
       /\ activity[w]["ScaleCanary"] \in {"ok", "error", "canceled"}
       /\ activity[w]["Promote"] # "ok"

\* Only the activity w awaits is pending; one that writes has one of three results.
Outcomes(w) ==
  /\ \A a \in Activities : activity[w][a] \in Pending => pc[w] = a
  /\ \A a \in Mutating :
       activity[w][a] \in {"none", "ok", "error", "canceled"} \cup Pending

\* An inverse is known to the saga only of a step that succeeded.
Registered(w) ==
  \A c \in Compensations :
    Stacked(w, c) \/ activity[w][c] # "none" => activity[w][Undone(c)] = "ok"

\* What still runs is left of a cancelled activity.
Straggling(w) ==
  zombie[w] # NoZombie => /\ zombie[w].act \in Mutating
                          /\ activity[w][zombie[w].act] = "canceled"

HistoryOf(w) ==
  /\ Behind(w)
  /\ Path(w)
  /\ Outcomes(w)
  /\ Registered(w)
  /\ Straggling(w)

History == \A w \in Workflows : HistoryOf(w)

-----------------------------------------------------------------------------
(* The control flow of the workflow function, results and stack included.  *)

At(w, a, rs) == pc[w] = a /\ activity[w][a] \in rs

\* w takes its next forward step a.
GoesOn(w, a) ==
  \/ pc[w] = "Idle" /\ a = "PolicyCheck"
  \/ At(w, "PolicyCheck", {"ok"}) /\ a = "ScaleCanary"
  \/ At(w, "ScaleCanary", {"ok"}) /\ a = "HealthCheck"
  \/ At(w, "HealthCheck", {"ok"}) /\ a = "ShiftTraffic"
  \/ At(w, "ShiftTraffic", {"ok"}) /\ a \in {"RecordApproval", "Gate"}
  \/ pc[w] = "Gate" /\ a = "RecordApproval"
  \/ At(w, "RecordApproval", Results) /\ a = "Promote"

\* w stands where it may begin to unwind.
GivesUp(w) ==
  \/ \E b \in Mutating : At(w, b, {"error", "canceled"})
  \/ At(w, "HealthCheck", {"unhealthy", "error", "canceled"})
  \/ At(w, "RecordApproval", Results)

\* w pops the stack and runs a: an inverse, or the alert if there is none left.
Pops(w, a) ==
  \/ saga[w] = <<>> /\ saga'[w] = <<>> /\ a = "Alert"
  \/ saga[w] = <<Canary>> /\ saga'[w] = <<>> /\ a = Canary
  \/ saga[w] = <<Canary, Traffic>> /\ saga'[w] = <<Canary>> /\ a = Traffic

\* w is on its way out, or out, at a with status st, and has nothing to undo any more.
Leaves(w, a, st) ==
  \/ At(w, "PolicyCheck", {"rejected"}) /\ a = "Alert" /\ st = "PolicyRejected"
  \/ At(w, "PolicyCheck", {"error", "canceled"}) /\ a \in {"Failed", "Canceled"} /\ st = status[w]
  \/ At(w, "Promote", {"ok"}) /\ a = "Completed" /\ st = "Promoted"
  \/ At(w, "Alert", Results) /\ a = "Completed" /\ st = status[w]

\* A workflow task of w that gets it to a.
Turn(w, a) ==
  /\ pc'[w] = a
  /\ \A b \in Activities \ {a} : activity'[w][b] = activity[w][b]
  /\ a \in Activities => activity'[w][a] \in {"queued", "canceled"}
  /\ a \in Compensations => activity'[w][a] = "queued"
  /\ \/ GoesOn(w, a) /\ status'[w] = status[w]
     \/ /\ Leaves(w, a, status'[w])
        /\ saga'[w] = saga[w]
     \/ GivesUp(w) /\ Pops(w, a) /\ status'[w] \in RollbackStatuses
     \/ /\ \E c \in Compensations : At(w, c, Results)
        /\ Pops(w, a) /\ status'[w] = status[w]

\* Every workflow task is a turn.
LEMMA TaskTurns ==
  ASSUME TypeOK, SagaOrder, NEW w \in Workflows, StartWorkflow(w) \/ WorkflowTask(w)
  PROVE  \E a : Turn(w, a)
<1> DEFINE Effect(a) ==
             /\ pc'[w] = a
             /\ \A b \in Activities \ {a} : activity'[w][b] = activity[w][b]
             /\ a \in Activities => activity'[w][a] \in {"queued", "canceled"}
             /\ a \in Compensations => activity'[w][a] = "queued"
<1>1. ASSUME NEW a \in Activities, Schedule(w, a)
      PROVE  Effect(a)
  BY <1>1, ScheduleEffect
<1>2. ASSUME NEW how \in Closed, Close(w, how)
      PROVE  Effect(how)
  BY <1>2, CloseControl DEF Closed, Activities, Forward, Compensations
<1>3. ASSUME compensate(w)
      PROVE  \E a : Effect(a) /\ Pops(w, a)
  <2>1. \/ saga[w] = <<>> /\ saga'[w] = <<>> /\ Schedule(w, "Alert")
        \/ saga[w] = <<Canary>> /\ saga'[w] = <<>> /\ Schedule(w, Canary)
        \/ /\ saga[w] = <<Canary, Traffic>> /\ saga'[w] = <<Canary>>
           /\ Schedule(w, Traffic)
    BY <1>3, compensateEffect DEF SagaOrder, SagaOrderOf
  <2>2. {"Alert", Canary, Traffic} \subseteq Activities
    BY DEF Activities, Compensations, Canary, Traffic
  <2> HIDE DEF Effect
  <2> QED
    BY <1>1, <2>1, <2>2 DEF Pops
<1>4. ASSUME NEW a, Effect(a), GoesOn(w, a), UNCHANGED status
      PROVE  Turn(w, a)
  BY <1>4 DEF Turn
<1>5. ASSUME NEW st \in RollbackStatuses, unwind(w, st), GivesUp(w)
      PROVE  \E a : Turn(w, a)
  <2>1. status'[w] = st
    BY <1>5 DEF unwind, TypeOK
  <2>2. PICK a : Effect(a) /\ Pops(w, a)
    BY <1>3, <1>5 DEF unwind
  <2> QED
    BY <1>5, <2>1, <2>2 DEF Turn
<1>6. {"PolicyCheck", "ScaleCanary", "HealthCheck", "ShiftTraffic", "RecordApproval",
       "Promote", "Alert"} \subseteq Activities
  BY DEF Activities, Forward
<1> HIDE DEF Effect
<1> USE DEF At, Resumes
<1>7. CASE StartWorkflow(w)
  BY <1>1, <1>4, <1>6, <1>7 DEF StartWorkflow, Proceed, GoesOn
<1>8. CASE AfterPolicyCheck(w)
  <2>1. CASE Resumes(w, "PolicyCheck", "ok") /\ Schedule(w, "ScaleCanary") /\ UNCHANGED status
    BY <1>1, <1>4, <1>6, <2>1 DEF GoesOn
  <2>2. CASE /\ Resumes(w, "PolicyCheck", "rejected") /\ Schedule(w, "Alert")
             /\ status' = [status EXCEPT ![w] = "PolicyRejected"] /\ UNCHANGED saga
    <3>1. status'[w] = "PolicyRejected"
      BY <2>2 DEF TypeOK
    <3> QED
      BY <1>1, <1>6, <2>2, <3>1 DEF Turn, Leaves, Effect
  <2>3. CASE /\ \E r \in {"error", "canceled"} : Resumes(w, "PolicyCheck", r)
             /\ \E how \in {"Failed", "Canceled"} : Close(w, how)
             /\ UNCHANGED <<status, saga>>
    BY <1>2, <2>3 DEF Turn, Leaves, Effect, Closed
  <2> QED
    BY <1>8, <2>1, <2>2, <2>3 DEF AfterPolicyCheck, Proceed
<1>9. CASE AfterScaleCanary(w)
  <2>1. CASE /\ Resumes(w, "ScaleCanary", "ok") /\ Schedule(w, "HealthCheck")
             /\ UNCHANGED status
    BY <1>1, <1>4, <1>6, <2>1 DEF GoesOn
  <2>2. CASE /\ \E r \in {"error", "canceled"} : Resumes(w, "ScaleCanary", r)
             /\ unwind(w, "RolledBack")
    BY <1>5, <2>2 DEF GivesUp, Mutating, RollbackStatuses
  <2> QED
    BY <1>9, <2>1, <2>2 DEF AfterScaleCanary, Proceed
<1>10. CASE AfterHealthCheck(w)
  <2>1. CASE /\ Resumes(w, "HealthCheck", "ok") /\ Schedule(w, "ShiftTraffic")
             /\ UNCHANGED status
    BY <1>1, <1>4, <1>6, <2>1 DEF GoesOn
  <2>2. CASE /\ \E r \in {"unhealthy", "error", "canceled"} : Resumes(w, "HealthCheck", r)
             /\ unwind(w, "RolledBack")
    BY <1>5, <2>2 DEF GivesUp, RollbackStatuses
  <2> QED
    BY <1>10, <2>1, <2>2 DEF AfterHealthCheck, Proceed
<1>11. CASE AfterShiftTraffic(w)
  <2>1. CASE /\ Resumes(w, "ShiftTraffic", "ok") /\ Schedule(w, "RecordApproval")
             /\ UNCHANGED status
    BY <1>1, <1>4, <1>6, <2>1 DEF GoesOn
  <2>2. CASE /\ Resumes(w, "ShiftTraffic", "ok") /\ pc' = [pc EXCEPT ![w] = "Gate"]
             /\ UNCHANGED <<activity, status>>
    <3>1. Effect("Gate")
      BY <2>2 DEF Effect, TypeOK, AttemptTypeOK, Activities, Forward, Compensations
    <3> QED
      BY <1>4, <2>2, <3>1 DEF GoesOn
  <2>3. CASE /\ \E r \in {"error", "canceled"} : Resumes(w, "ShiftTraffic", r)
             /\ unwind(w, "RolledBack")
    BY <1>5, <2>3 DEF GivesUp, Mutating, RollbackStatuses
  <2> QED
    BY <1>11, <2>1, <2>2, <2>3 DEF AfterShiftTraffic
<1>12. CASE ReceiveApproval(w) \/ ApprovalTimeout(w)
  BY <1>1, <1>4, <1>6, <1>12 DEF ReceiveApproval, ApprovalTimeout, GoesOn
<1>13. CASE AfterRecordApproval(w)
  <2>1. At(w, "RecordApproval", Results)
    BY <1>13 DEF AfterRecordApproval
  <2>2. CASE Schedule(w, "Promote") /\ UNCHANGED status
    BY <1>1, <1>4, <1>6, <2>1, <2>2 DEF GoesOn
  <2>3. CASE \E st \in RollbackStatuses : unwind(w, st)
    BY <1>5, <2>1, <2>3 DEF GivesUp
  <2> QED
    BY <1>13, <2>2, <2>3 DEF AfterRecordApproval, Proceed, RollbackStatuses
<1>14. CASE AfterPromote(w)
  <2>1. CASE /\ Resumes(w, "Promote", "ok") /\ Close(w, "Completed")
             /\ status' = [status EXCEPT ![w] = "Promoted"] /\ UNCHANGED saga
    <3>1. status'[w] = "Promoted"
      BY <2>1 DEF TypeOK
    <3> QED
      BY <1>2, <2>1, <3>1 DEF Turn, Leaves, Effect, Closed
  <2>2. CASE /\ \E r \in {"error", "canceled"} : Resumes(w, "Promote", r)
             /\ unwind(w, "RolledBack")
    BY <1>5, <2>2 DEF GivesUp, Mutating, RollbackStatuses
  <2> QED
    BY <1>14, <2>1, <2>2 DEF AfterPromote
<1>15. CASE AfterCompensation(w)
  <2>1. PICK a : Effect(a) /\ Pops(w, a)
    BY <1>3, <1>15 DEF AfterCompensation
  <2> QED
    BY <1>15, <2>1 DEF AfterCompensation, Turn, Effect
<1>16. CASE AfterAlert(w)
  BY <1>2, <1>16 DEF AfterAlert, Turn, Leaves, Effect, Closed
<1> QED
  BY <1>7, <1>8, <1>9, <1>10, <1>11, <1>12, <1>13, <1>14, <1>15, <1>16 DEF WorkflowTask

-----------------------------------------------------------------------------
(* The control invariant is inductive.                                     *)

\* How the activity that w awaits can get result r.
Ends(w, r) ==
  LET a == pc[w]
  IN  \/ r = "error"
      \/ r = "canceled" /\ a \in Connected
      \/ r = "rejected" /\ a = "PolicyCheck"
      \/ /\ r \in {"ok", "unhealthy"}
         /\ activity[w][a] = "running"
         /\ call[w] \notin DOMAIN Calls(a, input[w])
         /\ r = "unhealthy" => a = "HealthCheck"
         /\ a = "HealthCheck" /\ r = "ok" => verdict[w]
         /\ a = "ShiftTraffic" => "traffic" \notin input[w].Simulate

\* Only the policy check makes a dry run.
LEMMA DryRuns ==
  ASSUME NEW a \in Activities, NEW in \in CanaryInput, NEW k \in DOMAIN Calls(a, in),
         Calls(a, in)[k].op = "dryRun"
  PROVE  a = "PolicyCheck"
<1> USE DEF Calls, Call
<1>1. CASE a = "ScaleCanary"
  BY <1>1 DEF ScaleCanary, SetImage, Scale, DeploymentStatus
<1>2. CASE a = "HealthCheck"
  BY <1>2 DEF HealthCheck, DeploymentStatus, Tick
<1>3. CASE a = "ShiftTraffic"
  BY <1>3 DEF ShiftTraffic, Scale
<1>4. CASE a = "Promote"
  BY <1>4 DEF Promote, SetImage, Scale
<1>5. CASE a \in Compensations
  BY <1>5, InverseCalls
<1>6. CASE a = "RecordApproval"
  BY <1>6 DEF RecordApproval
<1>7. CASE a = "Alert"
  BY <1>7 DEF Alert
<1> QED
  BY <1>1, <1>2, <1>3, <1>4, <1>5, <1>6, <1>7 DEF Activities, Forward

\* Between workflow tasks an activity is pending before it changes, and it gets
\* a result only when it is awaited, in one of these ways.
LEMMA ResultSource ==
  ASSUME TypeOK, [Next]_vars,
         \A w \in Workflows : ~StartWorkflow(w) /\ ~WorkflowTask(w),
         NEW v \in Workflows, NEW a \in Activities, activity'[v][a] # activity[v][a]
  PROVE  \/ activity'[v][a] \in Pending
         \/ a = pc[v] /\ Ends(v, activity'[v][a])
<1> USE DEF Pending
<1>1. ASSUME NEW w \in Workflows, NEW r, activity' = [activity EXCEPT ![w][pc[w]] = r]
      PROVE  v = w /\ a = pc[w] /\ activity'[v][a] = r
  BY <1>1 DEF TypeOK, AttemptTypeOK
<1>2. ASSUME NEW w \in Workflows, FailAttempt(w)
      PROVE  activity'[v][a] \in Pending \/ (a = pc[v] /\ Ends(v, activity'[v][a]))
  <2>1. PICK r \in {"queued", "error"} : activity' = [activity EXCEPT ![w][pc[w]] = r]
    BY <1>2, FailedAttempt
  <2> QED
    BY <1>1, <2>1 DEF Ends
<1>3. ASSUME NEW w \in Workflows, NEW r, Finish(w, r), Ends(w, r)
      PROVE  a = pc[v] /\ Ends(v, activity'[v][a])
  BY <1>1, <1>3 DEF Finish
<1>4. ASSUME NEW w \in Workflows, Attempt(w)
      PROVE  activity'[v][a] \in Pending \/ (a = pc[v] /\ Ends(v, activity'[v][a]))
  <2>1. CASE StartAttempt(w)
    BY <1>1, <2>1 DEF StartAttempt
  <2>2. CASE CallFails(w) /\ Finish(w, "rejected") /\ NextCall(w).op = "dryRun"
    <3>1. pc[w] = "PolicyCheck"
      BY <2>2, DryRuns, CanaryAssumption DEF CallFails, Calling, IsAt, NextCall, TypeOK
    <3> QED
      BY <1>3, <2>2, <3>1 DEF Ends
  <2>3. CASE ActivityReturns(w) /\ ~FailAttempt(w)
    <3>1. PICK r \in {"ok", "rejected", "unhealthy"} :
            /\ Finish(w, r)
            /\ r = "rejected" => pc[w] = "PolicyCheck"
            /\ r = "unhealthy" => pc[w] = "HealthCheck"
            /\ pc[w] = "HealthCheck" /\ r = "ok" => verdict[w]
            /\ pc[w] = "ShiftTraffic" => "traffic" \notin input[w].Simulate
      <4>1. CASE pc[w] = "PolicyCheck"
        BY <2>3, <4>1 DEF ActivityReturns
      <4>2. CASE pc[w] = "HealthCheck"
        BY <2>3, <4>2 DEF ActivityReturns
      <4>3. CASE pc[w] \notin {"PolicyCheck", "HealthCheck"}
        BY <2>3, <4>3 DEF ActivityReturns
      <4> QED
        BY <4>1, <4>2, <4>3
    <3>2. Ends(w, r)
      BY <2>3, <3>1 DEF Ends, ActivityReturns, IsAt
    <3> QED
      BY <1>3, <3>1, <3>2
  <2>4. CASE CancelActivity(w)
    BY <1>3, <2>4 DEF CancelActivity, Ends
  <2> QED
    BY <1>2, <1>4, <2>1, <2>2, <2>3, <2>4 DEF Attempt, CallSucceeds, CallFails, ReplyLost,
       AttemptTimesOut, ZombieCall, ZombieStops, zombieFrame
<1>5. CASE Crash
  BY <1>5 DEF Crash
<1>6. CASE (\E w \in Workflows : Approve(w) \/ Cancel(w)) \/ BuildClient \/ Restart
           \/ PodChange \/ UNCHANGED vars
  BY <1>6 DEF Approve, Cancel, BuildClient, Restart, PodChange, vars
<1> QED
  BY <1>4, <1>5, <1>6 DEF Next

\* A cancelled attempt becomes a zombie when its activity gets that result.
LEMMA ZombieSource ==
  ASSUME TypeOK, [Next]_vars,
         \A w \in Workflows : ~StartWorkflow(w) /\ ~WorkflowTask(w),
         NEW v \in Workflows
  PROVE  \/ zombie'[v] = NoZombie
         \/ /\ zombie'[v].act = zombie[v].act /\ zombie[v] # NoZombie
            /\ zombie'[v].call = zombie[v].call \/ ZombieCall(v)
         \/ /\ zombie'[v].act = pc[v] /\ pc[v] \in Mutating
            /\ activity[v][pc[v]] = "running" /\ activity'[v][pc[v]] = "canceled"
            /\ zombie'[v].call = call[v]
<1>1. CASE \E w \in Workflows : CancelActivity(w)
  <2> PICK w \in Workflows : CancelActivity(w)
    BY <1>1
  <2>1. pc[w] \in Activities /\ activity' = [activity EXCEPT ![w][pc[w]] = "canceled"]
    BY DEF CancelActivity, Finish, Connected, Activities
  <2>2. activity'[w][pc[w]] = "canceled"
    BY <2>1 DEF TypeOK, AttemptTypeOK
  <2> QED
    BY <2>2 DEF CancelActivity, TypeOK
<1>2. CASE \E w \in Workflows : ZombieCall(w)
  <2> PICK w \in Workflows : ZombieCall(w)
    BY <1>2
  <2>1. zombie[w] \in [act : Mutating, call : Nat]
    BY DEF ZombieCall, ZombieCalling, TypeOK, Zombies
  <2>2. zombie' = [zombie EXCEPT ![w] = [zombie[w] EXCEPT !.call = @ + 1]]
    BY DEF ZombieCall
  <2>3. zombie[w] # NoZombie
    BY DEF ZombieCall, ZombieCalling
  <2>4. CASE v = w
    BY <2>1, <2>2, <2>3, <2>4, ZombieMoves DEF TypeOK
  <2>5. CASE v # w
    BY <2>2, <2>5 DEF TypeOK
  <2> QED
    BY <2>4, <2>5
<1>3. CASE \E w \in Workflows : ZombieStops(w)
  BY <1>3 DEF ZombieStops, TypeOK
<1>4. CASE Crash
  BY <1>4 DEF Crash
<1>5. CASE UNCHANGED zombie
  BY <1>5
<1> QED
  BY <1>1, <1>2, <1>3, <1>4, <1>5 DEF Next, Attempt, StartAttempt, CallSucceeds, CallFails,
     ReplyLost, ActivityReturns, AttemptTimesOut, attemptFrame, Approve, Cancel,
     BuildClient, Restart, PodChange, vars

\* Steps that are no workflow task keep the invariant.
LEMMA OtherStepsKeepHistory ==
  ASSUME TypeOK, History, [Next]_vars,
         \A w \in Workflows : ~StartWorkflow(w) /\ ~WorkflowTask(w),
         NEW v \in Workflows
  PROVE  HistoryOf(v)'
<1>1. HistoryOf(v) /\ UNCHANGED <<pc, saga, status, input>>
  BY ActivitySteps, OtherSteps DEF History
<1>2. ASSUME NEW a \in Activities, activity'[v][a] # activity[v][a]
      PROVE  /\ pc[v] = a /\ activity[v][a] \in Pending
             /\ activity'[v][a] \in Pending \/ Ends(v, activity'[v][a])
  BY <1>1, <1>2, ActivitySteps, ResultSource DEF HistoryOf, Outcomes
<1>3. Compensations \subseteq Activities /\ Mutating \subseteq Activities
      /\ "PolicyCheck" \in Activities
  BY DEF Activities, Forward, Mutating
<1>4. Behind(v)'
  <2>1. activity'[v]["ShiftTraffic"] = "ok" => "traffic" \notin input[v].Simulate
    BY <1>1, <1>2, <1>3 DEF HistoryOf, Behind, Ends, Pending, Mutating
  <2> QED
    BY <1>1, <1>2, <1>3, <2>1 DEF HistoryOf, Behind, Mutating, Pending
<1>5. Path(v)'
  <2>1. \A a \in Activities : pc[v] # a => activity'[v][a] = activity[v][a]
    BY <1>2
  <2>2. {"PolicyCheck", "ScaleCanary", "Promote"} \cup Mutating \cup Compensations
          \subseteq Activities
    BY DEF Activities, Forward, Mutating
  <2>3. pc[v] \in Compensations \cup {"Alert", "Completed"}
         => \A a \in Forward : activity'[v][a] = activity[v][a]
    BY <2>1 DEF Activities, Forward, Compensations
  <2>4. pc[v] = "Completed" => \A a \in Activities : activity'[v][a] = activity[v][a]
    BY <2>1 DEF Activities, Forward, Compensations
  <2> QED
    BY <1>1, <2>2, <2>3, <2>4 DEF HistoryOf, Path, Forward, Mutating, Compensations
<1>6. Outcomes(v)'
  <2>1. \A a \in Mutating : activity'[v][a] # activity[v][a] =>
          activity'[v][a] \in {"ok", "error", "canceled"} \cup Pending
    BY <1>2, <1>3 DEF Ends, Mutating
  <2> QED
    BY <1>1, <1>2, <1>3, <2>1 DEF HistoryOf, Outcomes
<1>7. Registered(v)'
  <2>1. \A c \in Compensations : activity'[v][Undone(c)] = activity[v][Undone(c)]
                                 \/ activity[v][Undone(c)] # "ok"
    BY <1>2, <1>3 DEF Undone, Pending, Mutating
  <2> QED
    BY <1>1, <1>2, <1>3, <2>1 DEF HistoryOf, Registered, Stacked, Pending
<1>8. Straggling(v)'
  <2>1. zombie[v] # NoZombie => /\ zombie[v].act \in Mutating
                                /\ activity'[v][zombie[v].act] = "canceled"
    BY <1>1, <1>2, <1>3 DEF HistoryOf, Straggling, Pending
  <2> QED
    BY <1>1, <2>1, ZombieSource DEF Straggling
<1> QED
  BY <1>4, <1>5, <1>6, <1>7, <1>8 DEF HistoryOf

\* Where a forward step is scheduled it has not been before, and no inverse has.
LEMMA FreshForward ==
  ASSUME TypeOK, NEW w \in Workflows, SagaOrderOf(w), HistoryOf(w), NEW a, GoesOn(w, a)
  PROVE  /\ a \in Forward \cup {"Gate"}
         /\ a \in Mutating => activity[w][a] = "none"
         /\ \A c \in Compensations : activity[w][c] = "none"
         /\ status[w] = "none"
BY DEF GoesOn, At, HistoryOf, Behind, Path, SagaOrderOf, NotReached, Inverses, Forward,
   Compensations, Mutating, Canary, Closed, RollbackStatuses, TypeOK, Statuses

\* A workflow task keeps the invariant of its execution.
LEMMA TaskKeepsHistory ==
  ASSUME TypeOK, SagaOrder, SagaOrder', History, NEW w \in Workflows,
         StartWorkflow(w) \/ WorkflowTask(w)
  PROVE  HistoryOf(w)'
<1>1. HistoryOf(w) /\ SagaOrderOf(w) /\ SagaOrderOf(w)' /\ UNCHANGED <<input, zombie>>
  BY TaskFrame DEF History, SagaOrder
<1>2. PICK a : Turn(w, a)
  BY TaskTurns
<1>3. Compensations \subseteq Activities /\ Mutating \subseteq Activities
      /\ "PolicyCheck" \in Activities
  BY DEF Activities, Forward, Mutating
<1>4. ASSUME GoesOn(w, a)
      PROVE  /\ a \in Forward \cup {"Gate"}
             /\ a \in Mutating => activity[w][a] = "none"
             /\ \A c \in Compensations : activity[w][c] = "none"
             /\ status[w] = "none"
  BY <1>1, <1>4, FreshForward
<1>5. Behind(w)'
  <2>1. CASE GoesOn(w, a)
    <3>1. /\ a \in {"HealthCheck", "ShiftTraffic", "Gate", "RecordApproval", "Promote"}
               => activity[w]["ScaleCanary"] = "ok"
          /\ a \in {"Gate", "RecordApproval", "Promote"} => activity[w]["ShiftTraffic"] = "ok"
          /\ activity[w]["Promote"] = "none"
      BY <1>1, <2>1 DEF HistoryOf, Behind, GoesOn, At, Closed, Compensations
    <3>2. \A b \in Mutating : b # a => activity'[w][b] = activity[w][b]
      BY <1>2, <1>3 DEF Turn
    <3>3. a = "ShiftTraffic" => activity'[w]["ShiftTraffic"] # "ok"
      BY <1>2, <1>3 DEF Turn, Mutating
    <3>4. pc'[w] \notin {"Failed", "Canceled"}
      BY <1>2, <2>1 DEF Turn, GoesOn
    <3>5. /\ activity'[w]["ScaleCanary"] # "none" => activity'[w]["PolicyCheck"] = "ok"
          /\ activity'[w]["ShiftTraffic"] # "none" => activity'[w]["ScaleCanary"] = "ok"
      <4>1. \A b \in {"PolicyCheck", "ScaleCanary", "ShiftTraffic"} :
              b # a => activity'[w][b] = activity[w][b]
        BY <1>2, <1>3 DEF Turn, Mutating
      <4>2. CASE a = "PolicyCheck"
        BY <1>1, <2>1, <4>1, <4>2 DEF GoesOn, SagaOrderOf, NotReached
      <4>3. CASE a = "ScaleCanary"
        BY <1>1, <2>1, <4>1, <4>3 DEF GoesOn, At, SagaOrderOf, NotReached
      <4>4. CASE a \notin {"PolicyCheck", "ScaleCanary"}
        BY <1>1, <3>1, <4>1, <4>4 DEF HistoryOf, Behind
      <4> QED
        BY <4>2, <4>3, <4>4
    <3> QED
      BY <1>1, <1>2, <3>1, <3>2, <3>3, <3>4, <3>5 DEF HistoryOf, Behind, Turn, Mutating
  <2>2. CASE a \in Compensations \cup Closed \cup {"Alert"}
    <3>1. a \in {"Failed", "Canceled"} => activity'[w]["PolicyCheck"] # "ok"
      BY <1>2, <1>3, <2>2 DEF Turn, GoesOn, Leaves, Pops, At, Canary, Traffic
    <3>2. \A b \in Mutating \cup {"PolicyCheck"} : activity'[w][b] = activity[w][b]
      BY <1>2, <1>3, <2>2 DEF Turn, Closed, Compensations, Mutating
    <3>3. pc'[w] = a /\ Behind(w)
      BY <1>1, <1>2 DEF HistoryOf, Turn
    <3> QED
      BY <1>1, <2>2, <3>1, <3>2, <3>3 DEF Behind, Closed, Compensations, Mutating
  <2> QED
    BY <1>2, <2>1, <2>2 DEF Turn, Leaves, Pops, Closed, Compensations, Canary, Traffic
<1>6. Path(w)'
  <2> USE DEF At
  <2>1. CASE GoesOn(w, a) /\ status'[w] = status[w]
    BY <1>2, <1>4, <2>1 DEF Path, Turn, RollbackStatuses
  <2>2. CASE Leaves(w, a, status'[w])
    <3>1. a \in {"Alert"} \cup Closed
      BY <2>2 DEF Leaves, Closed
    <3>2. \A b \in Mutating \cup Compensations \cup {"PolicyCheck"} :
            activity'[w][b] = activity[w][b]
      BY <1>2, <1>3, <3>1 DEF Turn, Mutating, Compensations, Closed
    <3>3. /\ Path(w) /\ Behind(w) /\ pc'[w] = a
          /\ pc[w] = "Promote" => \A c \in Compensations : activity[w][c] = "none"
      BY <1>1, <1>2 DEF HistoryOf, SagaOrderOf, Inverses, Turn, Compensations, Closed, Canary
    <3>4. CASE pc[w] = "PolicyCheck"
      <4>1. status[w] = "none"
        BY <3>3, <3>4 DEF Path, Compensations, TypeOK, Statuses, RollbackStatuses
      <4> QED
        BY <2>2, <3>2, <3>3, <3>4, <4>1 DEF Leaves, Path, RollbackStatuses, Forward
    <3>5. CASE At(w, "Promote", {"ok"}) /\ a = "Completed" /\ status'[w] = "Promoted"
      <4>1. /\ \A b \in Mutating : activity[w][b] = "ok"
            /\ \A c \in Compensations : activity[w][c] = "none"
        BY <3>3, <3>5 DEF Behind, Mutating
      <4>2. /\ pc'[w] = "Completed"
            /\ \A b \in Mutating : activity'[w][b] = "ok"
            /\ \A c \in Compensations : activity'[w][c] = "none"
        BY <3>2, <3>3, <3>5, <4>1
      <4> QED
        BY <3>5, <4>2 DEF Path, RollbackStatuses
    <3>6. CASE At(w, "Alert", Results) /\ a = "Completed" /\ status'[w] = status[w]
      BY <3>2, <3>3, <3>6 DEF Path, Mutating, Compensations, Forward
    <3> QED
      BY <2>2, <3>4, <3>5, <3>6 DEF Leaves
  <2>3. CASE GivesUp(w) /\ Pops(w, a) /\ status'[w] \in RollbackStatuses
    <3>1. /\ activity[w]["ScaleCanary"] \in {"ok", "error", "canceled"}
          /\ activity[w]["Promote"] # "ok"
      BY <1>1, <2>3 DEF HistoryOf, Behind, GivesUp, Mutating, Compensations, Closed
    <3> QED
      BY <1>2, <1>3, <2>3, <3>1 DEF Path, Turn, Pops, RollbackStatuses, Compensations, Canary,
         Traffic, Mutating
  <2>4. CASE /\ \E c \in Compensations : At(w, c, Results)
             /\ Pops(w, a) /\ status'[w] = status[w]
    <3>1. status[w] \in RollbackStatuses
      BY <1>1, <2>4 DEF HistoryOf, Path, RollbackStatuses, Compensations, Forward, TypeOK,
         Statuses
    <3> QED
      BY <1>1, <1>2, <1>3, <2>4, <3>1 DEF HistoryOf, Path, Turn, Pops, RollbackStatuses,
         Compensations, Canary, Traffic, Mutating
  <2> QED
    BY <1>2, <2>1, <2>2, <2>3, <2>4 DEF Turn
<1>7. pc[w] \in Activities => activity[w][pc[w]] \notin Pending
  BY <1>2 DEF Turn, GoesOn, GivesUp, Leaves, At, Results, Pending, Activities, Forward,
     Compensations
<1>8. Outcomes(w)'
  BY <1>1, <1>2, <1>3, <1>7 DEF HistoryOf, Outcomes, Turn, Pending
<1>9. Registered(w)'
  <2> USE DEF Registered, Stacked, Undone, Compensations, Canary, Traffic
  <2>1. CASE GoesOn(w, a)
    <3>1. \A c \in Compensations : activity'[w][c] = "none"
      BY <1>2, <1>3, <1>4, <2>1 DEF Turn, Forward
    <3>2. /\ a \in {"PolicyCheck", "ScaleCanary"} => saga'[w] = <<>>
          /\ a \in {"HealthCheck", "ShiftTraffic"} => saga'[w] = <<Canary>>
      BY <1>1, <1>2 DEF SagaOrderOf, ForwardStack, Turn
    <3>3. /\ a \in {"HealthCheck", "ShiftTraffic", "Gate", "RecordApproval", "Promote"}
               => activity'[w]["ScaleCanary"] = "ok"
          /\ a \in {"Gate", "RecordApproval", "Promote"} => activity'[w]["ShiftTraffic"] = "ok"
      BY <1>2, <1>5 DEF Behind, Turn
    <3>4. CASE a \in {"PolicyCheck", "ScaleCanary"}
      BY <3>1, <3>2, <3>4
    <3>5. CASE a \in {"HealthCheck", "ShiftTraffic"}
      BY <3>1, <3>2, <3>3, <3>5
    <3>6. CASE a \in {"Gate", "RecordApproval", "Promote"}
      BY <3>1, <3>3, <3>6
    <3> QED
      BY <2>1, <3>4, <3>5, <3>6 DEF GoesOn
  <2>2. CASE Leaves(w, a, status'[w]) /\ saga'[w] = saga[w]
    <3>1. a \in {"Alert"} \cup Closed
      BY <2>2 DEF Leaves, Closed
    <3>2. \A b \in Mutating \cup Compensations : activity'[w][b] = activity[w][b]
      BY <1>2, <1>3, <3>1 DEF Turn, Mutating, Closed
    <3> QED
      BY <1>1, <2>2, <3>2 DEF HistoryOf, Mutating
  <2>3. CASE Pops(w, a)
    <3>1. \A b \in Mutating \cup Compensations : b # a => activity'[w][b] = activity[w][b]
      BY <1>2, <1>3 DEF Turn
    <3>2. a \in {"Alert"} \cup Compensations
      BY <2>3 DEF Pops
    <3>3. \A c \in Compensations : Stacked(w, c)' \/ a = c => Stacked(w, c)
      BY <2>3 DEF Pops
    <3> QED
      BY <1>1, <3>1, <3>2, <3>3 DEF HistoryOf, Mutating
  <2> QED
    BY <1>2, <2>1, <2>2, <2>3 DEF Turn
<1>10. Straggling(w)'
  <2>1. ASSUME zombie[w] # NoZombie
        PROVE  activity'[w][zombie[w].act] = activity[w][zombie[w].act]
    <3>1. zombie[w].act \in Mutating /\ activity[w][zombie[w].act] = "canceled"
      BY <1>1, <2>1 DEF HistoryOf, Straggling
    <3>2. zombie[w].act # a
      BY <1>2, <1>4, <3>1 DEF Turn, Leaves, Pops, Mutating, Compensations, Canary, Traffic
    <3> QED
      BY <1>2, <1>3, <3>1, <3>2 DEF Turn
  <2> QED
    BY <1>1, <2>1 DEF HistoryOf, Straggling
<1> QED
  BY <1>5, <1>6, <1>8, <1>9, <1>10 DEF HistoryOf

\* Every step keeps the invariant.
LEMMA StepHistory ==
  ASSUME TypeOK, SagaOrder, SagaOrder', History, [Next]_vars
  PROVE  History'
<1>1. ASSUME NEW w \in Workflows, StartWorkflow(w) \/ WorkflowTask(w), NEW v \in Workflows
      PROVE  HistoryOf(v)'
  <2>1. CASE v = w
    BY <1>1, <2>1, TaskKeepsHistory
  <2>2. CASE v # w
    <3>1. /\ pc'[v] = pc[v] /\ activity'[v] = activity[v] /\ UNCHANGED <<input, zombie>>
          /\ saga'[v] = saga[v] /\ status'[v] = status[v]
      BY <1>1, <2>2, TaskFrame, SagaFrame
    <3> QED
      BY <3>1 DEF History, HistoryOf, Behind, Path, Outcomes, Registered, Stacked, Straggling
  <2> QED
    BY <2>1, <2>2
<1> QED
  BY <1>1, OtherStepsKeepHistory DEF History


\* The invariants hold at first and are kept by every step.
LEMMA HistoryInductive == Spec => [](TypeOK /\ SagaOrder /\ Gates /\ History)
<1>1. Init => History
  <2> SUFFICES ASSUME Init, NEW w \in Workflows PROVE HistoryOf(w)
    BY DEF History
  <2>1. /\ pc[w] = "Idle" /\ saga[w] = <<>> /\ status[w] = "none" /\ zombie[w] = NoZombie
        /\ \A a \in Activities : activity[w][a] = "none"
    BY DEF Init
  <2>2. Mutating \cup Compensations \subseteq Activities
    BY DEF Activities, Forward, Mutating
  <2> QED
    BY <2>1, <2>2 DEF HistoryOf, Behind, Path, Outcomes, Registered, Straggling, Stacked,
       Canary, Traffic, RollbackStatuses, Mutating, Pending
<1>2. TypeOK /\ SagaOrder /\ SagaOrder' /\ History /\ [Next]_vars => History'
  BY StepHistory
<1> QED
  BY <1>1, <1>2, GatesInductive, PTL DEF Spec

\* An activity that writes gets its result once, and is never scheduled again.
LEMMA ResultsStay ==
  ASSUME TypeOK, SagaOrder, History, [Next]_vars,
         NEW v \in Workflows, NEW a \in Mutating \cup Compensations
  PROVE  /\ activity[v][a] \in Results => activity'[v][a] = activity[v][a]
         /\ activity[v][a] # "none" => activity'[v][a] # "none"
<1>1. a \in Activities
  BY DEF Activities, Forward, Mutating
<1>2. CASE \A w \in Workflows : ~StartWorkflow(w) /\ ~WorkflowTask(w)
  <2>1. activity'[v][a] # activity[v][a] =>
          activity[v][a] \in Pending /\ activity'[v][a] \in Pending \cup Results
    BY <1>1, <1>2, ActivitySteps
  <2> QED
    BY <2>1 DEF Pending, Results
<1>3. ASSUME NEW w \in Workflows, StartWorkflow(w) \/ WorkflowTask(w), v # w
      PROVE  activity'[v] = activity[v]
  BY <1>3, TaskFrame
<1>4. CASE StartWorkflow(v) \/ WorkflowTask(v)
  <2>1. PICK b : Turn(v, b)
    BY <1>4, TaskTurns
  <2>2. a = b => activity[v][a] = "none"
    <3>1. CASE GoesOn(v, b)
      BY <3>1, FreshForward DEF SagaOrder, History, Compensations, Forward
    <3>2. CASE Pops(v, b)
      BY <3>2 DEF SagaOrder, SagaOrderOf, Inverses, Stacked, Pops, Mutating, Compensations,
         Canary, Traffic
    <3>3. CASE Leaves(v, b, status'[v])
      BY <3>3 DEF Leaves, Mutating, Compensations
    <3> QED
      BY <2>1, <3>1, <3>2, <3>3 DEF Turn
  <2> QED
    BY <1>1, <2>1, <2>2 DEF Turn, Results
<1> QED
  BY <1>2, <1>3, <1>4

-----------------------------------------------------------------------------
(* The invariant on the cluster: what the calls made so far have left.     *)

\* The cluster shows the effect of call c.
Holds(c, in) ==
  /\ c.op = "setImage" => image[<<in.Service, c.role>>] = in.ImageTag
  /\ c.op = "scale" => replicas[<<in.Service, c.role>>] = c.n

Done(w, a) == \A k \in DOMAIN Calls(a, input[w]) : Holds(Calls(a, input[w])[k], input[w])

\* The calls a running attempt has behind it hold, and there is one it starts with.
InProgress(w) ==
  IsAt(w, "running") =>
    /\ call[w] \in Nat \ {0}
    /\ \A k \in DOMAIN Calls(pc[w], input[w]) :
         k < call[w] => Holds(Calls(pc[w], input[w])[k], input[w])

\* Activities whose effect nothing undoes.
Final == Compensations \cup {"Promote"}

\* What was not written yet, and what was written for good.
Settled(w) ==
  LET s == input[w].Service
  IN  /\ activity[w]["Promote"] = "none" => image[stableName(s)] = InitialImage
      /\ activity[w]["ShiftTraffic"] = "none" \/ "traffic" \in input[w].Simulate
           => replicas[stableName(s)] = BaseReplicas
      /\ \A a \in Final : activity[w][a] = "ok" => Done(w, a)

\* Of a deploy alone on its service, none of whose steps has failed.
Effects ==
  \A w \in Workflows :
    SoleDeploy(w) /\ ~Faulty(w) => InProgress(w) /\ Settled(w)

\* The canary of w runs its image, or has no replicas and nobody is about to give
\* it any.
Tagged(w) ==
  LET d == canaryName(input[w].Service)
  IN  \/ image[d] = input[w].ImageTag
      \/ /\ replicas[d] = 0
         /\ activity[w]["ScaleCanary"] # "ok"
         /\ pc[w] = "ScaleCanary" /\ activity[w]["ScaleCanary"] = "running" => call[w] = 1
         /\ zombie[w].act = "ScaleCanary" => zombie[w].call = 1
         /\ zombie[w].act \notin {"ShiftTraffic", "Promote"}

\* An image that never gets ready has no ready pods, hence no healthy poll.
Unready(w) ==
  input[w].ImageTag \notin Runnable =>
    /\ \A i \in Images : ready[input[w].Service][i] = 0
    /\ ~verdict[w]
    /\ activity[w]["HealthCheck"] # "ok"

Readiness == \A w \in Workflows : SoleDeploy(w) => Tagged(w) /\ Unready(w)

-----------------------------------------------------------------------------
(* Calls and their effects.                                                *)

\* The calls of an activity are numbered from one, and no two of them write the
\* same thing.
LEMMA CallsApart ==
  ASSUME NEW a \in Activities, NEW in \in CanaryInput
  PROVE  /\ \E n \in Nat : DOMAIN Calls(a, in) = 1..n
         /\ \A j, k \in DOMAIN Calls(a, in) :
              LET c == Calls(a, in)[j]
                  d == Calls(a, in)[k]
              IN  j # k /\ c.op = d.op /\ c.role = d.role =>
                    c.op \notin {"setImage", "scale"}
<1> USE DEF Calls, Call
<1>1. CASE a = "PolicyCheck"
  BY <1>1 DEF PolicyCheck, DryRunSetImage
<1>2. CASE a = "ScaleCanary"
  BY <1>2 DEF ScaleCanary, SetImage, Scale, DeploymentStatus
<1>3. CASE a = "HealthCheck"
  BY <1>3 DEF HealthCheck, DeploymentStatus, Tick, CanaryInput
<1>4. CASE a = "ShiftTraffic"
  BY <1>4 DEF ShiftTraffic, Scale
<1>5. CASE a = "Promote"
  BY <1>5 DEF Promote, SetImage, Scale
<1>6. CASE a = "ScaleDownCanary"
  BY <1>6 DEF ScaleDownCanary, Scale
<1>7. CASE a = "ShiftTrafficBack"
  BY <1>7 DEF ShiftTrafficBack, Scale
<1>8. CASE a = "RecordApproval"
  BY <1>8 DEF RecordApproval
<1>9. CASE a = "Alert"
  BY <1>9 DEF Alert
<1> QED
  BY <1>1, <1>2, <1>3, <1>4, <1>5, <1>6, <1>7, <1>8, <1>9
     DEF Activities, Forward, Compensations

\* A call takes its effect and leaves that of calls that write something else.
LEMMA PerformEffect ==
  ASSUME TypeOK, NEW in \in CanaryInput, NEW c \in CallType, Perform(c, in)
  PROVE  /\ c.op = "setImage" => image'[<<in.Service, c.role>>] = in.ImageTag
         /\ c.op = "scale" => replicas'[<<in.Service, c.role>>] = c.n
         /\ \A d \in Deployments :
              /\ image'[d] # image[d] => c.op = "setImage" /\ d = <<in.Service, c.role>>
              /\ replicas'[d] # replicas[d] => c.op = "scale" /\ d = <<in.Service, c.role>>
<1>1. <<in.Service, c.role>> \in Deployments
  BY DEF Deployments, CanaryInput, CallType
<1> QED
  BY <1>1 DEF TypeOK, ClusterTypeOK, Perform, setImage, scaleDeployment, clusterVars

\* What an attempt of w, or a zombie of it, writes to its service.
LEMMA OwnWrite ==
  ASSUME TypeOK, NEW w \in Workflows, NEW a \in Activities,
         NEW k \in DOMAIN Calls(a, input[w]), Perform(Calls(a, input[w])[k], input[w]),
         NEW r \in Roles
  PROVE  LET c == Calls(a, input[w])[k]
             d == <<input[w].Service, r>>
         IN  /\ image'[d] # image[d] => /\ c.op = "setImage" /\ c.role = r
                                        /\ image'[d] = input[w].ImageTag
             /\ replicas'[d] # replicas[d] => /\ c.op = "scale" /\ c.role = r
                                              /\ replicas'[d] = c.n
             /\ c.op = "setImage" /\ c.role = r => image'[d] = input[w].ImageTag
             /\ c.op = "scale" /\ c.role = r => replicas'[d] = c.n
             /\ c.op \in {"setImage", "scale"} =>
                  a \in Writers /\ (c.role = "stable" => a \in StableWriters)
             /\ c.op = "setImage" /\ c.role = "stable" => a = "Promote"
<1> DEFINE c == Calls(a, input[w])[k]
<1>1. input[w] \in CanaryInput
  BY CanaryAssumption DEF TypeOK
<1>2. /\ c \in CallType
      /\ c.op \in {"setImage", "scale"} =>
           a \in Writers /\ (c.role = "stable" => a \in StableWriters)
      /\ c.op = "setImage" /\ c.role = "stable" => a = "Promote"
  BY <1>1, CallFacts, WritingCalls
<1>3. <<input[w].Service, r>> \in Deployments
  BY <1>1 DEF Deployments, CanaryInput
<1>4. Perform(c, input[w])
  OBVIOUS
<1>5. c.role \in Roles
  BY <1>2 DEF CallType
<1> HIDE DEF c
<1>6. LET d == <<input[w].Service, r>>
      IN  /\ image'[d] # image[d] => /\ c.op = "setImage" /\ c.role = r
                                     /\ image'[d] = input[w].ImageTag
          /\ replicas'[d] # replicas[d] => /\ c.op = "scale" /\ c.role = r
                                           /\ replicas'[d] = c.n
          /\ c.op = "setImage" /\ c.role = r => image'[d] = input[w].ImageTag
          /\ c.op = "scale" /\ c.role = r => replicas'[d] = c.n
  <2> DEFINE e == <<input[w].Service, r>>
  <2>1. /\ c.op = "setImage" => image'[<<input[w].Service, c.role>>] = input[w].ImageTag
        /\ c.op = "scale" => replicas'[<<input[w].Service, c.role>>] = c.n
        /\ image'[e] # image[e] => c.op = "setImage" /\ e = <<input[w].Service, c.role>>
        /\ replicas'[e] # replicas[e] => c.op = "scale" /\ e = <<input[w].Service, c.role>>
    BY <1>1, <1>2, <1>3, <1>4, PerformEffect
  <2>2. e = <<input[w].Service, c.role>> <=> r = c.role
    OBVIOUS
  <2> HIDE DEF e
  <2> QED
    BY <2>1, <2>2 DEF e
<1> QED
  BY <1>2, <1>6 DEF c

\* A workflow task makes no call and forgets nothing an attempt knows.
LEMMA TaskRest ==
  ASSUME NEW w \in Workflows, StartWorkflow(w) \/ WorkflowTask(w)
  PROVE  UNCHANGED <<image, replicas, ready, call, verdict, cancelled, worker>>
<1>1. UNCHANGED taskFrame
  BY DEF StartWorkflow, WorkflowTask, AfterPolicyCheck, AfterScaleCanary,
     AfterHealthCheck, AfterShiftTraffic, ReceiveApproval, ApprovalTimeout,
     AfterRecordApproval, AfterPromote, AfterCompensation, AfterAlert, taskFrame
<1>2. \/ \E a : Schedule(w, a)
      \/ \E how : Close(w, how)
      \/ UNCHANGED attemptVars
  BY DEF StartWorkflow, WorkflowTask, AfterPolicyCheck, AfterScaleCanary,
     AfterHealthCheck, AfterShiftTraffic, ReceiveApproval, ApprovalTimeout,
     AfterRecordApproval, AfterPromote, AfterCompensation, AfterAlert,
     Proceed, unwind, compensate
<1> QED
  BY <1>1, <1>2 DEF taskFrame, clusterVars, Schedule, Close, attemptVars

\* The Deployments of w's service are as they were.
Kept(w) ==
  \A r \in Roles : LET d == <<input[w].Service, r>>
                   IN  image'[d] = image[d] /\ replicas'[d] = replicas[d]

\* A call of another deploy leaves the service of a sole one alone.
LEMMA ForeignCall ==
  ASSUME TypeOK, NEW w \in Workflows, SoleDeploy(w), NEW v \in Workflows \ {w},
         CallSucceeds(v) \/ ReplyLost(v) \/ ZombieCall(v)
  PROVE  Kept(w)
<1>1. PICK a \in Activities : \E k \in DOMAIN Calls(a, input[v]) :
             Perform(Calls(a, input[v])[k], input[v])
  <2>1. CASE CallSucceeds(v) \/ ReplyLost(v)
    BY <2>1 DEF CallSucceeds, ReplyLost, Calling, NextCall, IsAt
  <2>2. CASE ZombieCall(v)
    <3>1. zombie[v].act \in Activities
      BY <2>2 DEF ZombieCall, ZombieCalling, TypeOK, Zombies, Mutating, Activities, Forward
    <3> QED
      BY <2>2, <3>1 DEF ZombieCall, ZombieCalling
  <2> QED
    BY <2>1, <2>2
<1>2. PICK k \in DOMAIN Calls(a, input[v]) : Perform(Calls(a, input[v])[k], input[v])
  BY <1>1
<1> DEFINE c == Calls(a, input[v])[k]
<1>3. input[v] \in CanaryInput /\ input[w] \in CanaryInput
  BY CanaryAssumption DEF TypeOK
<1>4. c \in CallType /\ Perform(c, input[v])
  BY <1>2, <1>3, CallFacts
<1> HIDE DEF c
<1>5. \A r \in Roles : /\ <<input[w].Service, r>> \in Deployments
                       /\ <<input[w].Service, r>> # <<input[v].Service, c.role>>
  BY <1>3 DEF SoleDeploy, Deployments, CanaryInput
<1>6. \A d \in Deployments : d # <<input[v].Service, c.role>> =>
        image'[d] = image[d] /\ replicas'[d] = replicas[d]
  BY <1>3, <1>4, PerformEffect
<1> QED
  BY <1>5, <1>6 DEF Kept

\* The service of a sole deploy changes by its own calls only.
LEMMA ServiceStep ==
  ASSUME TypeOK, [Next]_vars, NEW w \in Workflows, SoleDeploy(w)
  PROVE  Kept(w) \/ CallSucceeds(w) \/ ReplyLost(w) \/ ZombieCall(w)
<1>1. ASSUME NEW v \in Workflows \ {w}, CallSucceeds(v) \/ ReplyLost(v) \/ ZombieCall(v)
      PROVE  Kept(w)
  BY <1>1, ForeignCall
<1>2. CASE \A v \in Workflows : ~CallSucceeds(v) /\ ~ReplyLost(v) /\ ~ZombieCall(v)
  BY <1>2, QuietStep DEF Kept
<1> QED
  BY <1>1, <1>2

\* An attempt that is running has just been started, was running before, or has
\* just made a call.
LEMMA RunningSource ==
  ASSUME TypeOK, SagaOrder, [Next]_vars, NEW v \in Workflows, IsAt(v, "running")',
         ~CallSucceeds(v)
  PROVE  \/ call'[v] = 1
         \/ IsAt(v, "running") /\ pc'[v] = pc[v] /\ call'[v] = call[v]
<1> USE DEF IsAt
<1>1. ASSUME NEW w \in Workflows, StartWorkflow(w) \/ WorkflowTask(w)
      PROVE  IsAt(v, "running") /\ pc'[v] = pc[v] /\ call'[v] = call[v]
  <2>1. CASE v = w
    <3>1. PICK a : Turn(w, a)
      BY <1>1, TaskTurns
    <3> QED
      BY <2>1, <3>1 DEF Turn
  <2>2. CASE v # w
    BY <1>1, <2>2, TaskFrame, TaskRest
  <2> QED
    BY <2>1, <2>2
<1>2. ASSUME NEW w \in Workflows, NEW r, activity' = [activity EXCEPT ![w][pc[w]] = r],
             NEW n, call' = [call EXCEPT ![w] = n], UNCHANGED pc, r = "running" => n = 1
      PROVE  \/ call'[v] = 1
             \/ IsAt(v, "running") /\ pc'[v] = pc[v] /\ call'[v] = call[v]
  BY <1>2 DEF TypeOK, AttemptTypeOK
<1>3. ASSUME NEW w \in Workflows, Attempt(w)
      PROVE  \/ call'[v] = 1
             \/ IsAt(v, "running") /\ pc'[v] = pc[v] /\ call'[v] = call[v]
  <2>0. UNCHANGED pc
    BY <1>3 DEF Attempt, StartAttempt, CallSucceeds, CallFails, ReplyLost, ActivityReturns,
       AttemptTimesOut, CancelActivity, ZombieCall, ZombieStops, attemptFrame,
       zombieFrame, flowVars
  <2>1. CASE StartAttempt(w)
    BY <1>2, <2>0, <2>1 DEF StartAttempt
  <2>2. ASSUME NEW r \in Results, Finish(w, r)
        PROVE  \/ call'[v] = 1
               \/ IsAt(v, "running") /\ pc'[v] = pc[v] /\ call'[v] = call[v]
    BY <1>2, <2>0, <2>2 DEF Finish, Results
  <2>3. CASE FailAttempt(w)
    <3>1. PICK r \in {"queued", "error"} : activity' = [activity EXCEPT ![w][pc[w]] = r]
      BY <2>3, FailedAttempt
    <3>2. call' = [call EXCEPT ![w] = 0]
      BY <2>3 DEF FailAttempt, Finish
    <3> QED
      BY <1>2, <2>0, <3>1, <3>2
  <2>4. CASE CallSucceeds(w)
    BY <2>0, <2>4 DEF CallSucceeds, TypeOK, AttemptTypeOK
  <2>5. CASE ZombieCall(w) \/ ZombieStops(w)
    BY <2>5 DEF ZombieCall, ZombieStops, zombieFrame, attemptVars, flowVars
  <2>6. {"rejected", "ok", "unhealthy", "canceled"} \subseteq Results
    BY DEF Results
  <2> QED
    BY <1>3, <2>1, <2>2, <2>3, <2>4, <2>5, <2>6 DEF Attempt, CallFails, ReplyLost,
       AttemptTimesOut, ActivityReturns, CancelActivity
<1>4. CASE (\E w \in Workflows : Approve(w) \/ Cancel(w)) \/ BuildClient \/ Restart
           \/ PodChange \/ UNCHANGED vars
  BY <1>4 DEF Approve, Cancel, BuildClient, Restart, PodChange, vars, attemptVars, flowVars,
     workerFrame
<1>5. CASE Crash
  BY <1>5 DEF Crash, workerFrame, flowVars
<1> QED
  BY <1>1, <1>3, <1>4, <1>5 DEF Next

\* A fault is for good.
LEMMA FaultyStays ==
  ASSUME TypeOK, SagaOrder, History, [Next]_vars, NEW v \in Workflows, Faulty(v)
  PROVE  Faulty(v)'
<1>1. UNCHANGED input
  BY InputStays
<1>2. {"error", "canceled"} \subseteq Results
  BY DEF Results
<1> QED
  BY <1>1, <1>2, ResultsStay DEF Faulty

\* A deploy none of whose steps has failed has no zombie that calls.
LEMMA NoStraggler ==
  ASSUME History, NEW w \in Workflows, ~Faulty(w)
  PROVE  ~ZombieCall(w)
<1> SUFFICES ASSUME ZombieCall(w) PROVE FALSE
  OBVIOUS
<1>1. /\ zombie[w].act \in Mutating /\ activity[w][zombie[w].act] = "canceled"
      /\ zombie[w].call \in DOMAIN Calls(zombie[w].act, input[w])
  BY DEF ZombieCall, ZombieCalling, History, HistoryOf, Straggling
<1>2. Calls(zombie[w].act, input[w]) # <<>>
  BY <1>1
<1> QED
  BY <1>1, <1>2 DEF Faulty

-----------------------------------------------------------------------------
(* The invariant on the cluster is kept.                                   *)

\* What the sole deploy w writes when it makes a call, with its reply or without.
LEMMA OwnCall ==
  ASSUME TypeOK, SagaOrder, History, NEW w \in Workflows, CallSucceeds(w) \/ ReplyLost(w)
  PROVE  LET a == pc[w]
             c == NextCall(w)
         IN  /\ a \in Activities /\ activity[w][a] = "running"
             /\ call[w] \in DOMAIN Calls(a, input[w])
             /\ c = Calls(a, input[w])[call[w]]
             /\ c \in CallType /\ input[w] \in CanaryInput
             /\ Perform(c, input[w])
             /\ UNCHANGED <<pc, input, saga, status>>
             /\ \A b \in Activities : activity'[w][b] \in Results \ {"error"} =>
                                        activity[w][b] = activity'[w][b]
<1>1. Calling(w) /\ Perform(NextCall(w), input[w]) /\ UNCHANGED <<pc, input, saga, status>>
  BY DEF CallSucceeds, ReplyLost, attemptFrame, flowVars
<1>2. pc[w] \in Activities /\ input[w] \in CanaryInput
  BY <1>1, CanaryAssumption DEF Calling, IsAt, TypeOK
<1>3. NextCall(w) \in CallType
  BY <1>1, <1>2, CallFacts DEF Calling, NextCall
<1>4. \A b \in Activities : activity'[w][b] \in Results \ {"error"} =>
                              activity[w][b] = activity'[w][b]
  <2>1. CASE CallSucceeds(w)
    BY <2>1 DEF CallSucceeds
  <2>2. CASE ReplyLost(w)
    <3>1. PICK r \in {"queued", "error"} : activity' = [activity EXCEPT ![w][pc[w]] = r]
      BY <2>2, FailedAttempt DEF ReplyLost
    <3> QED
      BY <3>1 DEF TypeOK, AttemptTypeOK, Results
  <2> QED
    BY <2>1, <2>2
<1> QED
  BY <1>1, <1>2, <1>3, <1>4 DEF Calling, IsAt, NextCall

\* Such a call keeps what is settled: it is one of the activity that runs, and no
\* later one has written.
LEMMA CallKeepsSettled ==
  ASSUME TypeOK, SagaOrder, History, History', [Next]_vars, NEW w \in Workflows,
         CallSucceeds(w) \/ ReplyLost(w), Settled(w)
  PROVE  Settled(w)'
<1> DEFINE a == pc[w]
           c == NextCall(w)
           s == input[w].Service
<1>1. /\ a \in Activities /\ activity[w][a] = "running"
      /\ call[w] \in DOMAIN Calls(a, input[w]) /\ c = Calls(a, input[w])[call[w]]
      /\ c \in CallType /\ input[w] \in CanaryInput /\ Perform(c, input[w])
      /\ UNCHANGED <<pc, input>>
      /\ \A b \in Activities : activity'[w][b] \in Results \ {"error"} =>
                                 activity[w][b] = activity'[w][b]
  BY OwnCall
<1>2. HistoryOf(w) /\ SagaOrderOf(w)
  BY DEF History, SagaOrder
<1> HIDE DEF c
<1>3. /\ c.op = "setImage" /\ c.role = "stable" => a = "Promote"
      /\ c.op \in {"setImage", "scale"} =>
           a \in Writers /\ (c.role = "stable" => a \in StableWriters)
  BY <1>1, CallFacts, WritingCalls
<1>4. \A r \in Roles :
        LET d == <<s, r>>
        IN  /\ image'[d] # image[d] => c.op = "setImage" /\ c.role = r
            /\ replicas'[d] # replicas[d] => c.op = "scale" /\ c.role = r
  BY <1>1, OwnWrite
<1>5. activity'[w]["Promote"] = "none" => image'[stableName(s)] = InitialImage
  <2> SUFFICES ASSUME activity'[w]["Promote"] = "none" PROVE image'[stableName(s)] = InitialImage
    OBVIOUS
  <2>1. activity[w]["Promote"] = "none"
    BY ResultsStay DEF Mutating
  <2> QED
    BY <1>1, <1>3, <1>4, <2>1 DEF Settled, stableName, Roles
<1>6. activity'[w]["ShiftTraffic"] = "none" \/ "traffic" \in input[w].Simulate
        => replicas'[stableName(s)] = BaseReplicas
  <2> SUFFICES ASSUME activity'[w]["ShiftTraffic"] = "none" \/ "traffic" \in input[w].Simulate
               PROVE  replicas'[stableName(s)] = BaseReplicas
    OBVIOUS
  <2>1. activity[w]["ShiftTraffic"] = "none" \/ "traffic" \in input[w].Simulate
    BY ResultsStay DEF Mutating
  <2>2. a = "ShiftTraffic" => FALSE
    <3>1. "traffic" \in input[w].Simulate => Calls("ShiftTraffic", input[w]) = <<>>
      BY DEF Calls, ShiftTraffic
    <3> QED
      BY <1>1, <2>1, <3>1
  <2>3. a \in {"Promote", "ShiftTrafficBack"} => FALSE
    <3>1. a \in {"Promote", "ShiftTrafficBack"} => activity[w]["ShiftTraffic"] = "ok"
      BY <1>1, <1>2 DEF HistoryOf, Behind, Registered, Undone, Canary, Compensations
    <3> QED
      BY <1>2, <2>1, <3>1 DEF HistoryOf, Behind
  <2> QED
    BY <1>3, <1>4, <2>1, <2>2, <2>3 DEF Settled, stableName, Roles, StableWriters
<1>7. ASSUME NEW b \in Final, activity'[w][b] = "ok"
      PROVE  Done(w, b)'
  <2>1. activity[w][b] = "ok" /\ b # a /\ Done(w, b)
    BY <1>1, <1>7 DEF Settled, Final, Results, Activities, Forward
  <2>2. c.op \in {"setImage", "scale"} => a = Canary /\ b = Traffic
    <3> SUFFICES ASSUME a \in Writers PROVE a = Canary /\ b = Traffic
      BY <1>3
    <3>1. b # "Promote"
      <4>1. b = "Promote" => status[w] = "none" \/ status[w] = "Promoted" \/ status[w] = "PolicyRejected"
        BY <1>2, <2>1 DEF HistoryOf, Path, TypeOK, Statuses, RollbackStatuses
      <4> QED
        BY <1>1, <1>2, <2>1, <4>1 DEF HistoryOf, Path, Behind, Writers, Mutating, Compensations, Forward,
           Closed
    <3> QED
      BY <1>1, <1>2, <2>1, <3>1 DEF SagaOrderOf, Inverses, Final, Writers, Mutating,
         Compensations, Closed, Canary, Traffic
  <2>3. c.op \in {"setImage", "scale"} => c.op = "scale" /\ c.role = "canary" /\ c.n = 0
    <3>1. Calls(Canary, input[w]) = << Scale("canary", 0) >>
      BY DEF Calls, ScaleDownCanary, Canary
    <3> QED
      BY <1>1, <2>2, <3>1 DEF Scale, Call
  <2>4. ASSUME NEW k \in DOMAIN Calls(b, input[w])
        PROVE  LET e == Calls(b, input[w])[k]
               IN  /\ e.op = "setImage" => image'[<<s, e.role>>] = input[w].ImageTag
                   /\ e.op = "scale" => replicas'[<<s, e.role>>] = e.n
    <3> DEFINE e == Calls(b, input[w])[k]
    <3>1. e \in CallType
      BY <1>1, CallFacts DEF Final, Activities, Forward
    <3>2. /\ e.op = "setImage" => image[<<s, e.role>>] = input[w].ImageTag
          /\ e.op = "scale" => replicas[<<s, e.role>>] = e.n
      BY <2>1 DEF Done, Holds
    <3>3. b = Traffic /\ e.role = "canary" => e.n = 0
      BY DEF Calls, ShiftTrafficBack, Scale, Call, Traffic
    <3> HIDE DEF e
    <3>4. c.op = "scale" => replicas'[<<s, c.role>>] = c.n
      BY <1>1, PerformEffect
    <3>5. e.role \in Roles
      BY <3>1 DEF CallType
    <3> QED
      BY <1>4, <2>2, <2>3, <3>2, <3>3, <3>4, <3>5 DEF e
  <2> QED
    BY <1>1, <2>4 DEF Done, Holds
<1> QED
  BY <1>1, <1>5, <1>6, <1>7 DEF Settled, stableName

\* A call that succeeds is one more behind the attempt that makes it.
LEMMA CallKeepsProgress ==
  ASSUME TypeOK, SagaOrder, History, [Next]_vars, NEW w \in Workflows,
         CallSucceeds(w), InProgress(w)
  PROVE  InProgress(w)'
<1> DEFINE a == pc[w]
           c == NextCall(w)
           s == input[w].Service
<1>1. /\ a \in Activities /\ activity[w][a] = "running"
      /\ call[w] \in DOMAIN Calls(a, input[w]) /\ c = Calls(a, input[w])[call[w]]
      /\ c \in CallType /\ input[w] \in CanaryInput /\ Perform(c, input[w])
      /\ UNCHANGED <<pc, input>>
  BY OwnCall
<1>2. /\ IsAt(w, "running") /\ call[w] \in Nat \ {0}
      /\ \A k \in DOMAIN Calls(a, input[w]) :
           k < call[w] => Holds(Calls(a, input[w])[k], input[w])
  BY <1>1 DEF InProgress, IsAt
<1>3. call'[w] = call[w] + 1
  BY DEF CallSucceeds, TypeOK, AttemptTypeOK
<1>4. DOMAIN Calls(a, input[w]) \subseteq Nat
  BY <1>1, CallsApart
<1>5. ASSUME NEW k \in DOMAIN Calls(a, input[w]), k < call[w] + 1
      PROVE  LET e == Calls(a, input[w])[k]
             IN  /\ e.op = "setImage" => image'[<<s, e.role>>] = input[w].ImageTag
                 /\ e.op = "scale" => replicas'[<<s, e.role>>] = e.n
  <2> DEFINE e == Calls(a, input[w])[k]
  <2>1. e \in CallType
    BY <1>1, CallFacts
  <2>2. CASE k = call[w]
    <3>1. e = c
      BY <1>1, <2>2
    <3> HIDE DEF c, e
    <3> QED
      BY <1>1, <3>1, PerformEffect DEF e
  <2>3. CASE k # call[w]
    <3>1. /\ e.op = "setImage" => image[<<s, e.role>>] = input[w].ImageTag
          /\ e.op = "scale" => replicas[<<s, e.role>>] = e.n
      <4>1. k < call[w]
        BY <1>2, <1>4, <1>5, <2>3
      <4> QED
        BY <1>2, <4>1 DEF Holds
    <3>2. e.op \in {"setImage", "scale"} => ~(c.op = e.op /\ c.role = e.role)
      BY <1>1, <2>3, CallsApart
    <3>3. <<s, e.role>> \in Deployments
      BY <1>1, <2>1 DEF Deployments, CallType, CanaryInput
    <3> HIDE DEF c, e
    <3>4. /\ e.op = "setImage" => image'[<<s, e.role>>] = image[<<s, e.role>>]
          /\ e.op = "scale" => replicas'[<<s, e.role>>] = replicas[<<s, e.role>>]
      BY <1>1, <3>2, <3>3, PerformEffect
    <3> QED
      BY <3>1, <3>4 DEF e
  <2> QED
    BY <2>2, <2>3
<1> HIDE DEF c
<1> QED
  BY <1>1, <1>2, <1>3, <1>5 DEF InProgress, Holds

\* An activity that turns ok was running and has made all its calls.
LEMMA OkSource ==
  ASSUME TypeOK, SagaOrder, [Next]_vars, NEW w \in Workflows, NEW b \in Activities,
         activity[w][b] # "ok", activity'[w][b] = "ok"
  PROVE  /\ pc[w] = b /\ IsAt(w, "running")
         /\ call[w] \notin DOMAIN Calls(b, input[w])
<1>1. CASE \A v \in Workflows : ~StartWorkflow(v) /\ ~WorkflowTask(v)
  <2>1. b = pc[w] /\ Ends(w, "ok")
    BY <1>1, ResultSource DEF Pending
  <2> QED
    BY <2>1 DEF Ends, IsAt
<1>2. ASSUME NEW v \in Workflows, StartWorkflow(v) \/ WorkflowTask(v)
      PROVE  FALSE
  <2>1. v = w
    BY <1>2, TaskFrame
  <2>2. PICK t : Turn(w, t)
    BY <1>2, <2>1, TaskTurns
  <2> QED
    BY <2>2 DEF Turn
<1> QED
  BY <1>1, <1>2

\* An activity of a sole deploy that has made all its calls leaves them all done.
LEMMA AllCallsDone ==
  ASSUME TypeOK, NEW w \in Workflows, InProgress(w), IsAt(w, "running"),
         call[w] \notin DOMAIN Calls(pc[w], input[w])
  PROVE  Done(w, pc[w])
<1>1. PICK n \in Nat : DOMAIN Calls(pc[w], input[w]) = 1..n
  BY CallsApart, CanaryAssumption DEF IsAt, TypeOK
<1>2. call[w] \in Nat \ {0} /\ call[w] > n
  BY <1>1 DEF InProgress
<1> QED
  BY <1>1, <1>2 DEF InProgress, Done

\* Every step keeps Effects.
LEMMA StepEffects ==
  ASSUME TypeOK, SagaOrder, History, History', Effects, [Next]_vars
  PROVE  Effects'
<1> SUFFICES ASSUME NEW w \in Workflows, SoleDeploy(w)', ~Faulty(w)'
             PROVE  InProgress(w)' /\ Settled(w)'
  BY DEF Effects
<1>1. UNCHANGED input
  BY InputStays
<1>2. /\ SoleDeploy(w) /\ ~Faulty(w)
      /\ InProgress(w) /\ Settled(w)
  <2>1. SoleDeploy(w) /\ ~Faulty(w)
    BY <1>1, FaultyStays DEF SoleDeploy
  <2> QED
    BY <2>1 DEF Effects
<1>3. CASE CallSucceeds(w)
  BY <1>2, <1>3, CallKeepsSettled, CallKeepsProgress
<1>4. CASE ReplyLost(w)
  <2>1. ~IsAt(w, "running")'
    <3>1. PICK r \in {"queued", "error"} : activity' = [activity EXCEPT ![w][pc[w]] = r]
      BY <1>4, FailedAttempt DEF ReplyLost
    <3>2. pc[w] \in Activities /\ UNCHANGED pc
      BY <1>4 DEF ReplyLost, Calling, IsAt, attemptFrame, flowVars
    <3> QED
      BY <3>1, <3>2 DEF IsAt, TypeOK, AttemptTypeOK
  <2> QED
    BY <1>2, <1>4, <2>1, CallKeepsSettled DEF InProgress
<1>5. CASE Kept(w) /\ ~CallSucceeds(w)
  <2>1. input[w] \in CanaryInput
    BY CanaryAssumption DEF TypeOK
  <2>2. ASSUME NEW a \in Activities, NEW k \in DOMAIN Calls(a, input[w]),
               Holds(Calls(a, input[w])[k], input[w])
        PROVE  LET e == Calls(a, input[w])[k]
               IN  /\ e.op = "setImage" => image'[<<input[w].Service, e.role>>] = input[w].ImageTag
                   /\ e.op = "scale" => replicas'[<<input[w].Service, e.role>>] = e.n
    <3> DEFINE e == Calls(a, input[w])[k]
    <3>1. e.role \in Roles
      BY <2>1, CallFacts DEF CallType
    <3>2. Holds(e, input[w])
      BY <2>2
    <3> HIDE DEF e
    <3>3. /\ e.op = "setImage" => image'[<<input[w].Service, e.role>>] = input[w].ImageTag
          /\ e.op = "scale" => replicas'[<<input[w].Service, e.role>>] = e.n
      BY <1>5, <3>1, <3>2 DEF Kept, Holds
    <3> QED
      BY <3>3 DEF e
  <2>3. InProgress(w)'
    <3> SUFFICES ASSUME IsAt(w, "running")' PROVE InProgress(w)'
      BY DEF InProgress
    <3>1. CASE call'[w] = 1
      <4>1. \A k \in DOMAIN Calls(pc'[w], input[w]) : ~(k < 1)
        BY <2>1, CallsApart DEF IsAt
      <4> QED
        BY <1>1, <3>1, <4>1 DEF InProgress
    <3>2. CASE IsAt(w, "running") /\ pc'[w] = pc[w] /\ call'[w] = call[w]
      <4>1. \A k \in DOMAIN Calls(pc[w], input[w]) :
              k < call[w] => Holds(Calls(pc[w], input[w])[k], input[w])
        BY <1>2, <3>2 DEF InProgress
      <4> QED
        BY <1>1, <1>2, <2>2, <3>2, <4>1 DEF InProgress, Holds, IsAt
    <3> QED
      BY <1>5, <3>1, <3>2, RunningSource
  <2>4. ASSUME NEW b \in Final, activity'[w][b] = "ok"
        PROVE  Done(w, b)'
    <3>1. Final \subseteq Activities
      BY DEF Final, Activities, Forward
    <3>2. Done(w, b)
      <4>1. CASE activity[w][b] = "ok"
        BY <1>2, <4>1 DEF Settled
      <4>2. CASE activity[w][b] # "ok"
        BY <1>2, <2>4, <3>1, <4>2, OkSource, AllCallsDone
      <4> QED
        BY <4>1, <4>2
    <3>3. \A k \in DOMAIN Calls(b, input[w]) : Holds(Calls(b, input[w])[k], input[w])
      BY <3>2 DEF Done
    <3> QED
      BY <1>1, <2>2, <3>1, <3>3 DEF Done, Holds
  <2>5. /\ activity'[w]["Promote"] = "none" => activity[w]["Promote"] = "none"
        /\ activity'[w]["ShiftTraffic"] = "none" => activity[w]["ShiftTraffic"] = "none"
    BY ResultsStay DEF Mutating
  <2>6. Settled(w)'
    BY <1>1, <1>2, <1>5, <2>4, <2>5 DEF Settled, Kept, Roles, stableName
  <2> QED
    BY <2>3, <2>6
<1> QED
  BY <1>2, <1>3, <1>4, <1>5, ServiceStep, NoStraggler

-----------------------------------------------------------------------------
(* What is reported is true of the cluster.                                *)

\* The invariants hold at first and are kept by every step.
LEMMA EffectsInductive == Spec => [](TypeOK /\ SagaOrder /\ Gates /\ History /\ Effects)
<1>1. Init => Effects
  <2> SUFFICES ASSUME Init, NEW w \in Workflows PROVE InProgress(w) /\ Settled(w)
    BY DEF Effects
  <2>1. pc[w] = "Idle" /\ \A a \in Activities : activity[w][a] = "none"
    BY DEF Init
  <2>2. Final \subseteq Activities
    BY DEF Final, Activities, Forward
  <2>3. ~IsAt(w, "running")
    BY <2>1 DEF IsAt, Activities, Forward, Compensations
  <2>4. <<input[w].Service, "stable">> \in Deployments
    BY CanaryAssumption DEF Init, CanaryInput, Deployments, Roles
  <2>5. image[stableName(input[w].Service)] = InitialImage
        /\ replicas[stableName(input[w].Service)] = BaseReplicas
    BY <2>4 DEF Init, ClusterInit, stableName
  <2> QED
    BY <2>1, <2>2, <2>3, <2>5 DEF InProgress, Settled
<1>2. TypeOK /\ SagaOrder /\ History /\ History' /\ Effects /\ [Next]_vars => Effects'
  BY StepEffects
<1> QED
  BY <1>1, <1>2, HistoryInductive, PTL DEF Spec

\* What the cluster shows of a deploy that was promoted.
LEMMA PromotedServes ==
  ASSUME TypeOK, History, Effects, NEW w \in Workflows, SoleDeploy(w),
         activity[w]["Promote"] = "ok", ~Faulty(w)
  PROVE  LET s == input[w].Service
         IN  /\ image[stableName(s)] = input[w].ImageTag
             /\ replicas[stableName(s)] = input[w].TargetReplicas
             /\ replicas[canaryName(s)] = 0
<1>1. Done(w, "Promote")
  BY DEF Effects, Settled, Final
<1>2. /\ Calls("Promote", input[w]) = Promote(input[w])
      /\ DOMAIN Promote(input[w]) = 1..3
  BY DEF Calls, Promote
<1>3. \A k \in 1..3 : Holds(Promote(input[w])[k], input[w])
  BY <1>1, <1>2 DEF Done
<1>4. /\ Holds(SetImage("stable"), input[w])
      /\ Holds(Scale("stable", input[w].TargetReplicas), input[w])
      /\ Holds(Scale("canary", 0), input[w])
  BY <1>3 DEF Promote
<1> QED
  BY <1>4 DEF Holds, SetImage, Scale, Call, stableName, canaryName

\* Promoted is the truth about the cluster, after any number of attempts, lost
\* replies and crashes: see PromotedConverges.
THEOREM PromotionIsTrue == Spec => []PromotedConverges
<1>1. TypeOK /\ History /\ Effects => PromotedConverges
  <2> SUFFICES ASSUME TypeOK, History, Effects, NEW w \in Workflows, SoleDeploy(w),
                      status[w] = "Promoted"
               PROVE  LET s == input[w].Service
                      IN  /\ image[stableName(s)] = input[w].ImageTag
                          /\ replicas[stableName(s)] = input[w].TargetReplicas
                          /\ replicas[canaryName(s)] = 0
    BY DEF PromotedConverges
  <2>1. /\ \A a \in Mutating : activity[w][a] = "ok"
        /\ \A c \in Compensations : activity[w][c] = "none"
    BY DEF History, HistoryOf, Path
  <2>2. ~Faulty(w)
    BY <2>1 DEF Faulty
  <2> QED
    BY <2>1, <2>2, PromotedServes DEF Mutating
<1> QED
  BY <1>1, EffectsInductive, PTL

\* What the cluster shows once the saga of a deploy without a fault is unwound.
LEMMA UnwoundServes ==
  ASSUME TypeOK, SagaOrder, History, Effects, NEW w \in Workflows, SoleDeploy(w),
         ~Faulty(w), status[w] \in RollbackStatuses,
         pc[w] \in {"Completed", "Alert"}
  PROVE  LeftOld(w)
<1> DEFINE s == input[w].Service
<1>1. HistoryOf(w) /\ SagaOrderOf(w) /\ Settled(w) /\ saga[w] = <<>>
  BY DEF History, SagaOrder, Effects, SagaOrderOf, UnwindingStack, RollbackStatuses
<1>2. \A c \in Compensations : activity[w][c] # "error"
  BY DEF Faulty
<1>3. \A c \in Compensations : activity[w][Undone(c)] = "ok" => activity[w][c] = "ok"
  BY <1>1, <1>2 DEF SagaOrderOf, Covered, Stacked, Undone, Compensations, Canary
<1>4. \A c \in Compensations : activity[w][c] = "ok" => Done(w, c)
  BY <1>1 DEF Settled, Final
<1>5. activity[w]["ScaleCanary"] = "ok"
  <2>1. Calls("ScaleCanary", input[w]) # <<>>
    BY DEF Calls, ScaleCanary
  <2> QED
    BY <1>1, <2>1 DEF HistoryOf, Path, Faulty, Mutating
<1>6. replicas[canaryName(s)] = 0
  <2>1. Done(w, Canary)
    BY <1>3, <1>4, <1>5 DEF Undone, Compensations, Canary
  <2>2. Calls(Canary, input[w]) = ScaleDownCanary /\ DOMAIN ScaleDownCanary = 1..1
    BY DEF Calls, ScaleDownCanary, Canary
  <2>3. Holds(Scale("canary", 0), input[w])
    BY <2>1, <2>2 DEF Done, ScaleDownCanary
  <2> QED
    BY <2>3 DEF Holds, Scale, Call, canaryName
<1>7. image[stableName(s)] = InitialImage
  <2>1. activity[w]["Promote"] = "none"
    <3>1. Calls("Promote", input[w]) # <<>>
      BY DEF Calls, Promote
    <3>2. activity[w]["Promote"] \notin Pending
      BY <1>1 DEF HistoryOf, Outcomes, Activities, Forward
    <3> QED
      BY <1>1, <3>1, <3>2 DEF HistoryOf, Path, Outcomes, Faulty, Mutating
  <2> QED
    BY <1>1, <2>1 DEF Settled
<1>8. replicas[stableName(s)] = IF activity[w]["ShiftTrafficBack"] = "none"
                                THEN BaseReplicas ELSE AtLeastOne(input[w].TargetReplicas)
  <2>1. CASE activity[w]["ShiftTraffic"] = "ok"
    <3>1. activity[w][Traffic] = "ok" /\ Done(w, Traffic)
      BY <1>3, <1>4, <2>1 DEF Undone, Compensations, Canary, Traffic
    <3>2. /\ Calls(Traffic, input[w]) = ShiftTrafficBack(input[w])
          /\ DOMAIN ShiftTrafficBack(input[w]) = 1..2
      BY DEF Calls, ShiftTrafficBack, Traffic
    <3>3. Holds(Scale("stable", AtLeastOne(input[w].TargetReplicas)), input[w])
      BY <3>1, <3>2 DEF Done, ShiftTrafficBack
    <3> QED
      BY <3>1, <3>3 DEF Holds, Scale, Call, stableName, Traffic
  <2>2. CASE activity[w]["ShiftTraffic"] # "ok"
    <3>1. activity[w]["ShiftTrafficBack"] = "none"
      BY <1>1, <2>2 DEF HistoryOf, Registered, Undone, Compensations, Canary
    <3>2. activity[w]["ShiftTraffic"] = "none" \/ "traffic" \in input[w].Simulate
      <4>1. "traffic" \notin input[w].Simulate => Calls("ShiftTraffic", input[w]) # <<>>
        BY DEF Calls, ShiftTraffic
      <4>2. activity[w]["ShiftTraffic"] \notin Pending
        BY <1>1 DEF HistoryOf, Outcomes, Activities, Forward
      <4> QED
        BY <1>1, <2>2, <4>1, <4>2 DEF HistoryOf, Outcomes, Faulty, Mutating
    <3> QED
      BY <1>1, <3>1, <3>2 DEF Settled
  <2> QED
    BY <2>1, <2>2
<1> QED
  BY <1>6, <1>7, <1>8 DEF LeftOld

\* What a rollback without a failed step leaves, whatever the attempts, lost
\* replies and crashes on the way: see CleanRollbackLeavesOld.
THEOREM RollbackLeavesOld == Spec => []CleanRollbackLeavesOld
<1>1. TypeOK /\ SagaOrder /\ History /\ Effects => CleanRollbackLeavesOld
  <2> SUFFICES ASSUME TypeOK, SagaOrder, History, Effects, NEW w \in Workflows,
                      SoleDeploy(w), RolledBack(w), CleanHistory(w)
               PROVE  LeftOld(w)
    BY DEF CleanRollbackLeavesOld
  <2>1. ~Faulty(w)
    BY DEF CleanHistory, Faulty
  <2> QED
    BY <2>1, UnwoundServes DEF RolledBack, RollbackStatuses
<1> QED
  BY <1>1, EffectsInductive, PTL

\* Where the deploy asks for the count that stable had at first, that is all of
\* what was there before: the image, both counts, no canary.
THEOREM RollbackRestores ==
  Spec => [](\A w \in Workflows :
               /\ SoleDeploy(w) /\ RolledBack(w) /\ CleanHistory(w)
               /\ AtLeastOne(input[w].TargetReplicas) = BaseReplicas
               => /\ StableUntouched(input[w].Service)
                  /\ replicas[canaryName(input[w].Service)] = 0)
<1>1. CleanRollbackLeavesOld =>
        \A w \in Workflows :
          /\ SoleDeploy(w) /\ RolledBack(w) /\ CleanHistory(w)
          /\ AtLeastOne(input[w].TargetReplicas) = BaseReplicas
          => /\ StableUntouched(input[w].Service)
             /\ replicas[canaryName(input[w].Service)] = 0
  BY DEF CleanRollbackLeavesOld, LeftOld, StableUntouched
<1> QED
  BY <1>1, RollbackLeavesOld, PTL

-----------------------------------------------------------------------------
(* The invariant on the pods is kept.                                      *)

\* Where no pod of any image is ready the status shows none.
LEMMA NothingReady ==
  ASSUME NEW s \in Services, \A i \in Images : ready[s][i] = 0
  PROVE  ReadyReplicas(s) = 0
<1>1. \A i \in Images : {i} \X (1..ready[s][i]) = {}
  BY SMT
<1>2. UNION { {i} \X (1..ready[s][i]) : i \in Images } = {}
  BY <1>1
<1> QED
  BY <1>2, FS_EmptySet DEF ReadyReplicas

\* A poll is healthy only if it saw the canary so.
LEMMA VerdictSource ==
  ASSUME TypeOK, [Next]_vars, NEW v \in Workflows, verdict'[v] # FALSE
  PROVE  verdict[v] # FALSE \/ HealthyStatus(input[v].Service)
<1>1. ASSUME NEW w \in Workflows, verdict' = [verdict EXCEPT ![w] = FALSE]
      PROVE  verdict[v] # FALSE
  BY <1>1 DEF TypeOK, AttemptTypeOK
<1>2. CASE \E w \in Workflows : CallSucceeds(w)
  BY <1>2 DEF CallSucceeds, TypeOK, AttemptTypeOK
<1>3. ASSUME NEW w \in Workflows, FailAttempt(w) \/ \E r : Finish(w, r)
      PROVE  verdict[v] # FALSE
  BY <1>1, <1>3 DEF FailAttempt, Finish
<1>4. ASSUME NEW w \in Workflows, StartWorkflow(w) \/ WorkflowTask(w)
      PROVE  verdict[v] # FALSE
  BY <1>4, TaskRest
<1>5. CASE Crash
  BY <1>5 DEF Crash
<1>6. CASE UNCHANGED verdict
  BY <1>6
<1>7. ASSUME NEW w \in Workflows, Attempt(w), ~CallSucceeds(w)
      PROVE  \/ FailAttempt(w) \/ \E r : Finish(w, r)
             \/ UNCHANGED verdict
  BY <1>7 DEF Attempt, StartAttempt, CallFails, ReplyLost, ActivityReturns, AttemptTimesOut,
     CancelActivity, ZombieCall, ZombieStops, zombieFrame, attemptVars
<1> QED
  BY <1>2, <1>3, <1>4, <1>5, <1>6, <1>7 DEF Next, Approve, Cancel, BuildClient, Restart,
     PodChange, vars, attemptVars

\* Pods of the canary get ready only where its template's image can be run.
LEMMA ReadySource ==
  ASSUME TypeOK, [Next]_vars, NEW s \in Services, NEW i \in Images, ready'[s][i] # ready[s][i]
  PROVE  \/ ready[s][i] > 0
         \/ image[canaryName(s)] \in Runnable /\ replicas[canaryName(s)] # 0
<1>1. CASE PodChange
  <2>1. PICK t \in Services : PodReady(t) \/ PodLost(t)
    BY <1>1 DEF PodChange
  <2>2. ready \in [Services -> [Images -> Nat]] /\ replicas[canaryName(t)] \in Nat
    BY DEF TypeOK, ClusterTypeOK, Deployments, canaryName, Roles
  <2>3. CASE PodLost(t)
    BY <2>2, <2>3 DEF PodLost
  <2>4. CASE PodReady(t)
    <3> DEFINE j == image[canaryName(t)]
    <3>1. /\ j \in Runnable /\ ready[t][j] < replicas[canaryName(t)]
          /\ ready' = [ready EXCEPT ![t][j] = @ + 1]
      BY <2>4 DEF PodReady
    <3>2. j \in Images
      BY <3>1, ClusterAssumption
    <3> HIDE DEF j
    <3>3. s = t /\ i = j
      BY <2>2, <3>1, <3>2
    <3>4. ready[t][j] \in Nat
      BY <2>2, <3>2
    <3> QED
      BY <2>2, <3>1, <3>3, <3>4 DEF j
  <2> QED
    BY <2>1, <2>3, <2>4
<1>2. ASSUME NEW w \in Workflows, StartWorkflow(w) \/ WorkflowTask(w)
      PROVE  UNCHANGED ready
  BY <1>2, TaskRest
<1>3. ASSUME NEW w \in Workflows, Attempt(w) \/ Approve(w) \/ Cancel(w)
      PROVE  UNCHANGED ready
  BY <1>3 DEF Attempt, StartAttempt, CallSucceeds, CallFails, ReplyLost, ActivityReturns,
     AttemptTimesOut, CancelActivity, ZombieCall, ZombieStops, Perform, setImage,
     scaleDeployment, Approve, Cancel, clusterVars
<1> QED
  BY <1>1, <1>2, <1>3 DEF Next, BuildClient, Crash, Restart, workerFrame, clusterVars, vars

\* A running activity other than ScaleCanary that writes has ScaleCanary behind it.
LEMMA ScaledBefore ==
  ASSUME NEW w \in Workflows, SagaOrderOf(w), HistoryOf(w), NEW a \in Writers,
         pc[w] = a, activity[w][a] # "none", a # "ScaleCanary"
  PROVE  activity[w]["ScaleCanary"] = "ok"
<1>1. CASE a \in {"ShiftTraffic", "Promote"}
  BY <1>1 DEF HistoryOf, Behind
<1>2. CASE a = Traffic
  BY <1>2 DEF HistoryOf, Registered, Stacked, SagaOrderOf, UnwindingStack, Undone, Compensations,
     Canary
<1>3. CASE a = Canary
  BY <1>3 DEF HistoryOf, Registered, Undone, Compensations, Canary
<1> QED
  BY <1>1, <1>2, <1>3 DEF Writers, Mutating, Compensations, Canary, Traffic

\* The first call of ScaleCanary tags the canary.
LEMMA FirstCallTags ==
  ASSUME NEW in \in CanaryInput
  PROVE  /\ 1 \in DOMAIN Calls("ScaleCanary", in)
         /\ Calls("ScaleCanary", in)[1].op = "setImage"
         /\ Calls("ScaleCanary", in)[1].role = "canary"
BY DEF Calls, ScaleCanary, SetImage, Scale, DeploymentStatus, Call

\* The canary is given replicas only when it has been given its image.
LEMMA StepTagged ==
  ASSUME TypeOK, SagaOrder, History, History', [Next]_vars, NEW w \in Workflows,
         SoleDeploy(w), Tagged(w)
  PROVE  Tagged(w)'
<1> DEFINE d == <<input[w].Service, "canary">>
<1>1. UNCHANGED input /\ HistoryOf(w) /\ SagaOrderOf(w) /\ "canary" \in Roles
      /\ "ScaleCanary" \in Activities /\ input[w] \in CanaryInput
  BY InputStays, CanaryAssumption DEF History, SagaOrder, Roles, Activities, Forward, TypeOK
<1>2. ASSUME NEW a \in Activities, NEW k \in DOMAIN Calls(a, input[w]),
             Perform(Calls(a, input[w])[k], input[w]),
             image[d] # input[w].ImageTag, a # "ScaleCanary" \/ k = 1,
             a \in Writers => a = "ScaleCanary" 
      PROVE  \/ image'[d] = input[w].ImageTag
             \/ a # "ScaleCanary" /\ image'[d] = image[d] /\ replicas'[d] = replicas[d]
  BY <1>1, <1>2, OwnWrite, FirstCallTags
<1>3. CASE image[d] = input[w].ImageTag
  <2>1. CASE Kept(w)
    BY <1>1, <1>3, <2>1 DEF Kept, Tagged, canaryName
  <2>2. CASE CallSucceeds(w) \/ ReplyLost(w) \/ ZombieCall(w)
    <3>1. \E a \in Activities : \E k \in DOMAIN Calls(a, input[w]) :
            Perform(Calls(a, input[w])[k], input[w])
      <4>1. CASE CallSucceeds(w) \/ ReplyLost(w)
        BY <4>1 DEF CallSucceeds, ReplyLost, Calling, NextCall, IsAt
      <4>2. CASE ZombieCall(w)
        BY <1>1, <4>2 DEF ZombieCall, ZombieCalling, HistoryOf, Straggling, Mutating,
           Activities, Forward
      <4> QED
        BY <2>2, <4>1, <4>2
    <3>2. image'[d] = input[w].ImageTag
      BY <1>1, <1>3, <3>1, OwnWrite
    <3> QED
      BY <1>1, <3>2 DEF Tagged, canaryName
  <2> QED
    BY <2>1, <2>2, ServiceStep
<1>4. CASE image[d] # input[w].ImageTag
  <2>1. /\ replicas[d] = 0
        /\ activity[w]["ScaleCanary"] # "ok"
        /\ pc[w] = "ScaleCanary" /\ activity[w]["ScaleCanary"] = "running" => call[w] = 1
        /\ zombie[w].act = "ScaleCanary" => zombie[w].call = 1
        /\ zombie[w].act \notin {"ShiftTraffic", "Promote"}
    BY <1>4 DEF Tagged, canaryName
  <2>2. pc[w] \in Writers /\ activity[w][pc[w]] # "none" => pc[w] = "ScaleCanary"
    BY <1>1, <2>1, ScaledBefore
  <2>3. activity'[w]["ScaleCanary"] # "ok"
    BY <1>1, <2>1, FirstCallTags, OkSource DEF IsAt
  <2>4. /\ zombie'[w].act = "ScaleCanary" => zombie'[w].call = 1 \/ ZombieCall(w)
        /\ zombie'[w].act \notin {"ShiftTraffic", "Promote"}
    <3>1. CASE \A v \in Workflows : ~StartWorkflow(v) /\ ~WorkflowTask(v)
      BY <2>1, <2>2, <3>1, ZombieSource DEF NoZombie, Writers, Mutating
    <3>2. ASSUME NEW v \in Workflows, StartWorkflow(v) \/ WorkflowTask(v)
          PROVE  zombie' = zombie
      BY <3>2, TaskFrame
    <3> QED
      BY <2>1, <3>1, <3>2
  <2>5. ASSUME image'[d] = image[d], replicas'[d] = replicas[d], ~ZombieCall(w),
               CallSucceeds(w) => pc[w] # "ScaleCanary"
        PROVE  Tagged(w)'
    <3>1. pc'[w] = "ScaleCanary" /\ activity'[w]["ScaleCanary"] = "running" => call'[w] = 1
      <4>1. CASE CallSucceeds(w)
        BY <2>5, <4>1 DEF CallSucceeds, attemptFrame, flowVars
      <4>2. CASE ~CallSucceeds(w)
        BY <1>1, <2>1, <4>2, RunningSource DEF IsAt
      <4> QED
        BY <4>1, <4>2
    <3> QED
      BY <1>1, <2>1, <2>3, <2>4, <2>5, <3>1 DEF Tagged, canaryName
  <2>6. CASE (CallSucceeds(w) \/ ReplyLost(w)) /\ ~ZombieCall(w)
    <3>1. /\ pc[w] \in Activities /\ activity[w][pc[w]] = "running"
          /\ call[w] \in DOMAIN Calls(pc[w], input[w])
          /\ Perform(Calls(pc[w], input[w])[call[w]], input[w])
      BY <2>6, OwnCall
    <3>2. \/ image'[d] = input[w].ImageTag
          \/ pc[w] # "ScaleCanary" /\ image'[d] = image[d] /\ replicas'[d] = replicas[d]
      BY <1>2, <1>4, <2>1, <2>2, <3>1
    <3> QED
      BY <1>1, <2>5, <2>6, <3>2 DEF Tagged, canaryName
  <2>7. CASE ZombieCall(w)
    <3>1. /\ zombie[w].act = "ScaleCanary" /\ zombie[w].call = 1
          /\ zombie[w].call \in DOMAIN Calls(zombie[w].act, input[w])
          /\ Perform(Calls(zombie[w].act, input[w])[zombie[w].call], input[w])
      BY <1>1, <2>1, <2>7 DEF ZombieCall, ZombieCalling, HistoryOf, Straggling, Mutating
    <3>2. image'[d] = input[w].ImageTag
      BY <1>1, <1>2, <1>4, <3>1
    <3> QED
      BY <1>1, <3>2 DEF Tagged, canaryName
  <2>8. CASE Kept(w) /\ ~CallSucceeds(w) /\ ~ZombieCall(w)
    BY <1>1, <2>5, <2>8 DEF Kept
  <2> QED
    BY <2>6, <2>7, <2>8, ServiceStep
<1> QED
  BY <1>3, <1>4

\* An image that cannot be run never gets ready pods, nor a healthy bake.
LEMMA StepUnready ==
  ASSUME TypeOK, TypeOK', SagaOrder, History, [Next]_vars, NEW w \in Workflows,
         Tagged(w), Unready(w)
  PROVE  Unready(w)'
<1> DEFINE s == input[w].Service
<1> SUFFICES ASSUME input[w].ImageTag \notin Runnable
             PROVE  /\ \A i \in Images : ready'[s][i] = 0
                    /\ ~verdict'[w]
                    /\ activity'[w]["HealthCheck"] # "ok"
  BY InputStays DEF Unready
<1>1. s \in Services /\ "HealthCheck" \in Activities
  BY CanaryAssumption DEF TypeOK, CanaryInput, Activities, Forward
<1>2. /\ \A i \in Images : ready[s][i] = 0
      /\ ~verdict[w] /\ verdict[w] \in BOOLEAN
      /\ activity[w]["HealthCheck"] # "ok"
  BY DEF Unready, TypeOK, AttemptTypeOK
<1>3. \A i \in Images : ready'[s][i] = 0
  <2>1. ~(image[canaryName(s)] \in Runnable /\ replicas[canaryName(s)] # 0)
    BY DEF Tagged
  <2> QED
    BY <1>1, <1>2, <2>1, ReadySource
<1>4. ~verdict'[w]
  <2>1. replicas[canaryName(s)] \in Nat
    BY <1>1 DEF TypeOK, ClusterTypeOK, Deployments, Roles, canaryName
  <2>2. ~HealthyStatus(s)
    BY <1>1, <1>2, <2>1, NothingReady DEF HealthyStatus
  <2>3. verdict'[w] \in BOOLEAN
    BY DEF TypeOK, AttemptTypeOK
  <2> QED
    BY <1>2, <2>2, <2>3, VerdictSource
<1>5. activity'[w]["HealthCheck"] # "ok"
  <2>1. CASE \A v \in Workflows : ~StartWorkflow(v) /\ ~WorkflowTask(v)
    BY <1>1, <1>2, <2>1, ResultSource DEF Ends, Pending
  <2>2. ASSUME NEW v \in Workflows, StartWorkflow(v) \/ WorkflowTask(v), v # w
        PROVE  activity'[w] = activity[w]
    BY <2>2, TaskFrame
  <2>3. CASE StartWorkflow(w) \/ WorkflowTask(w)
    <3>1. PICK t : Turn(w, t)
      BY <2>3, TaskTurns
    <3> QED
      BY <1>1, <1>2, <3>1 DEF Turn
  <2> QED
    BY <1>2, <2>1, <2>2, <2>3
<1> QED
  BY <1>3, <1>4, <1>5

\* Every step keeps Readiness.
LEMMA StepReadiness ==
  ASSUME TypeOK, TypeOK', SagaOrder, History, History', Readiness, [Next]_vars
  PROVE  Readiness'
<1> SUFFICES ASSUME NEW w \in Workflows, SoleDeploy(w)' PROVE Tagged(w)' /\ Unready(w)'
  BY DEF Readiness
<1>1. SoleDeploy(w)
  BY InputStays DEF SoleDeploy
<1> QED
  BY <1>1, StepTagged, StepUnready DEF Readiness

\* The invariants hold at first and are kept by every step.
LEMMA ReadinessInductive == Spec => [](TypeOK /\ SagaOrder /\ History /\ Readiness)
<1>1. Init => Readiness
  <2> SUFFICES ASSUME Init, NEW w \in Workflows PROVE Tagged(w) /\ Unready(w)
    BY DEF Readiness
  <2>1. input[w].Service \in Services /\ "canary" \in Roles
    BY CanaryAssumption DEF Init, CanaryInput, Roles
  <2>2. {"ScaleCanary", "HealthCheck"} \subseteq Activities
    BY DEF Activities, Forward
  <2>3. /\ replicas[canaryName(input[w].Service)] = 0
        /\ \A i \in Images : ready[input[w].Service][i] = 0
    BY <2>1 DEF Init, ClusterInit, Deployments, canaryName
  <2>4. pc[w] = "Idle" /\ zombie[w].act = "none" /\ ~verdict[w]
        /\ \A a \in Activities : activity[w][a] = "none"
    BY DEF Init, NoZombie
  <2> QED
    BY <2>2, <2>3, <2>4 DEF Tagged, Unready
<1>2. TypeOK /\ TypeOK' /\ SagaOrder /\ History /\ History' /\ Readiness /\ [Next]_vars
        => Readiness'
  BY StepReadiness
<1> QED
  BY <1>1, <1>2, HistoryInductive, PTL DEF Spec

\* A bake ends healthy only about the image that is deployed, as long as no two
\* deploys share a service: see HealthyMeansRunnable.
THEOREM HealthyIsRunnable ==
  Spec => []((\A w \in Workflows : SoleDeploy(w)) => HealthyMeansRunnable)
<1>1. Readiness => ((\A w \in Workflows : SoleDeploy(w)) => HealthyMeansRunnable)
  BY DEF Readiness, Unready, HealthyMeansRunnable
<1> QED
  BY <1>1, ReadinessInductive, PTL

-----------------------------------------------------------------------------
(* Deploys that overlap: what each of them still owes the service.         *)

\* The counts a Deployment of s is at rest with.
Rest(s, r) ==
  IF r = "canary" THEN {0}
  ELSE LET on == {w \in Workflows : input[w].Service = s}
       IN  {BaseReplicas} \cup {input[w].TargetReplicas : w \in on}
                          \cup {AtLeastOne(input[w].TargetReplicas) : w \in on}

\* The calls that bring it to rest, with their number in their activity.
Restoring(r) == IF r = "canary" THEN {<<"Promote", 3>>, <<Canary, 1>>}
                                ELSE {<<"Promote", 2>>, <<Traffic, 2>>}

\* The step that may take it from rest.
Disturbing(r) == IF r = "canary" THEN "ScaleCanary" ELSE "ShiftTraffic"

\* w has made call k of a, and not started a again since.
HasMade(w, a, k) == \/ activity[w][a] = "ok"
                    \/ pc[w] = a /\ activity[w][a] = "running" /\ call[w] > k

Owes(w, r) ==
  /\ activity[w][Disturbing(r)] # "none"
  /\ Calls(Disturbing(r), input[w]) # <<>>
  /\ \A p \in Restoring(r) : ~HasMade(w, p[1], p[2])

\* A Deployment that is not at rest is owed something by a deploy, or was left so
\* by one with a fault.
Debts ==
  \A s \in Services, r \in Roles :
    replicas[<<s, r>>] \notin Rest(s, r) =>
      \E w \in Workflows : input[w].Service = s /\ (Faulty(w) \/ Owes(w, r))

\* A running attempt counts its calls from one.
Counting == \A w \in Workflows : IsAt(w, "running") => call[w] \in Nat \ {0}

-----------------------------------------------------------------------------
(* The invariant on the debts is kept.                                     *)

\* Promote and the inverses scale to counts at rest only.
LEMMA FinalCalls ==
  ASSUME NEW w \in Workflows, input[w] \in CanaryInput, NEW a \in Final,
         NEW k \in DOMAIN Calls(a, input[w]), Calls(a, input[w])[k].op = "scale"
  PROVE  LET c == Calls(a, input[w])[k]
         IN  c.n \in Rest(input[w].Service, c.role)
<1> USE DEF Calls, Scale, SetImage, Call, Rest
<1>1. CASE a = "Promote"
  BY <1>1 DEF Promote
<1>2. CASE a = "ScaleDownCanary"
  BY <1>2 DEF ScaleDownCanary
<1>3. CASE a = "ShiftTrafficBack"
  BY <1>3 DEF ShiftTrafficBack
<1> QED
  BY <1>1, <1>2, <1>3 DEF Final, Compensations

\* A restoring call is one of Promote or of an inverse.
LEMMA RestoringCalls ==
  ASSUME NEW in \in CanaryInput, NEW r \in Roles, NEW p \in Restoring(r)
  PROVE  /\ p[1] \in Final
         /\ p[2] \in DOMAIN Calls(p[1], in)
         /\ Calls(p[1], in)[p[2]].op = "scale"
         /\ Calls(p[1], in)[p[2]].role = r
<1> USE DEF Restoring, Calls, Scale, SetImage, Call, Final, Compensations, Canary, Traffic, Roles
<1>1. CASE p[1] = "Promote"
  BY <1>1 DEF Promote
<1>2. CASE p[1] = Canary
  BY <1>2 DEF ScaleDownCanary
<1>3. CASE p[1] = Traffic
  BY <1>3 DEF ShiftTrafficBack
<1> QED
  BY <1>1, <1>2, <1>3

\* The count of a Deployment changes by a scale call of a deploy of its service:
\* of the activity it awaits, or of a zombie.
LEMMA ScaleSource ==
  ASSUME TypeOK, [Next]_vars, NEW s \in Services, NEW r \in Roles,
         replicas'[<<s, r>>] # replicas[<<s, r>>]
  PROVE  \E w \in Workflows : \E a \in Activities : \E k \in DOMAIN Calls(a, input[w]) :
           /\ input[w].Service = s
           /\ \/ ZombieCall(w) /\ zombie[w].act = a
              \/ (CallSucceeds(w) \/ ReplyLost(w)) /\ pc[w] = a /\ activity[w][a] = "running"
           /\ LET c == Calls(a, input[w])[k]
              IN  c.op = "scale" /\ c.role = r /\ replicas'[<<s, r>>] = c.n
<1>1. PICK w \in Workflows : CallSucceeds(w) \/ ReplyLost(w) \/ ZombieCall(w)
  BY QuietStep
<1>2. PICK a \in Activities : \E k \in DOMAIN Calls(a, input[w]) :
        /\ Perform(Calls(a, input[w])[k], input[w])
        /\ \/ ZombieCall(w) /\ zombie[w].act = a
           \/ (CallSucceeds(w) \/ ReplyLost(w)) /\ pc[w] = a /\ activity[w][a] = "running"
  <2>1. CASE CallSucceeds(w) \/ ReplyLost(w)
    BY <2>1 DEF CallSucceeds, ReplyLost, Calling, NextCall, IsAt
  <2>2. CASE ZombieCall(w)
    <3>1. zombie[w].act \in Activities
      BY <2>2 DEF ZombieCall, ZombieCalling, TypeOK, Zombies, Mutating, Activities, Forward
    <3> QED
      BY <2>2, <3>1 DEF ZombieCall, ZombieCalling
  <2> QED
    BY <1>1, <2>1, <2>2
<1>3. PICK k \in DOMAIN Calls(a, input[w]) : Perform(Calls(a, input[w])[k], input[w])
  BY <1>2
<1> DEFINE c == Calls(a, input[w])[k]
<1>4. input[w] \in CanaryInput
  BY CanaryAssumption DEF TypeOK
<1>5. c \in CallType /\ Perform(c, input[w])
  BY <1>3, <1>4, CallFacts
<1> HIDE DEF c
<1>6. <<s, r>> \in Deployments
  BY DEF Deployments
<1>7. c.op = "scale" /\ <<s, r>> = <<input[w].Service, c.role>>
      /\ replicas'[<<input[w].Service, c.role>>] = c.n
  BY <1>4, <1>5, <1>6, PerformEffect
<1> QED
  BY <1>2, <1>7 DEF c

\* A running attempt counts its calls from one.
LEMMA StepCounting ==
  ASSUME TypeOK, SagaOrder, [Next]_vars, Counting
  PROVE  Counting'
<1> SUFFICES ASSUME NEW w \in Workflows, IsAt(w, "running")'
             PROVE  call'[w] \in Nat \ {0}
  BY DEF Counting
<1>1. CASE CallSucceeds(w)
  <2>1. IsAt(w, "running") /\ call'[w] = call[w] + 1
    BY <1>1 DEF CallSucceeds, Calling, TypeOK, AttemptTypeOK
  <2> QED
    BY <2>1 DEF Counting
<1>2. CASE ~CallSucceeds(w)
  BY <1>2, RunningSource DEF Counting
<1> QED
  BY <1>1, <1>2

\* A deploy that takes a Deployment from rest owes it from then on, or has a fault.
LEMMA DebtBegins ==
  ASSUME TypeOK, SagaOrder, History, [Next]_vars, NEW s \in Services, NEW r \in Roles,
         replicas'[<<s, r>>] # replicas[<<s, r>>], replicas'[<<s, r>>] \notin Rest(s, r)
  PROVE  \E w \in Workflows : input[w].Service = s /\ (Faulty(w)' \/ Owes(w, r)')
<1>1. PICK w \in Workflows, a \in Activities :
        \E k \in DOMAIN Calls(a, input[w]) :
           /\ input[w].Service = s
           /\ \/ ZombieCall(w) /\ zombie[w].act = a
              \/ (CallSucceeds(w) \/ ReplyLost(w)) /\ pc[w] = a /\ activity[w][a] = "running"
           /\ LET c == Calls(a, input[w])[k]
              IN  c.op = "scale" /\ c.role = r /\ replicas'[<<s, r>>] = c.n
  BY ScaleSource
<1>2. /\ UNCHANGED input /\ HistoryOf(w) /\ SagaOrderOf(w) /\ input[w] \in CanaryInput
      /\ input[w].Service = s
  BY <1>1, InputStays, CanaryAssumption DEF History, SagaOrder, TypeOK
<1>3. a \notin Final
  BY <1>1, <1>2, FinalCalls
<1>4. Calls(a, input[w]) # <<>>
  BY <1>1
<1>5. a \in Writers /\ (r = "stable" => a \in StableWriters)
  BY <1>1, <1>2, WritingCalls
<1>6. a \in {"ScaleCanary", "ShiftTraffic"} /\ (r = "stable" => a = "ShiftTraffic")
  BY <1>3, <1>5 DEF Final, Writers, StableWriters, Mutating, Compensations
<1>7. CASE ZombieCall(w) /\ zombie[w].act = a
  <2>1. Faulty(w)
    BY <1>2, <1>4, <1>7 DEF ZombieCall, ZombieCalling, HistoryOf, Straggling, Faulty
  <2> QED
    BY <1>2, <2>1, FaultyStays
<1>8. CASE /\ CallSucceeds(w) \/ ReplyLost(w)
           /\ pc[w] = a /\ activity[w][a] = "running"
  <2>1. activity'[w][Disturbing(r)] # "none"
    <3>1. activity[w][Disturbing(r)] # "none"
      BY <1>2, <1>5, <1>6, <1>8, ScaledBefore DEF Disturbing, Roles
    <3> QED
      BY <3>1, ResultsStay DEF Disturbing, Mutating
  <2>2. Calls(Disturbing(r), input[w]) # <<>>
    BY <1>4, <1>6 DEF Disturbing, Roles, Calls, ScaleCanary
  <2>3. ASSUME NEW b \in Final
        PROVE  activity'[w][b] # "ok" /\ pc'[w] # b
    <3>1. activity[w][b] # "ok"
      BY <1>2, <1>6, <1>8 DEF HistoryOf, Behind, SagaOrderOf, Inverses, Final, Compensations,
         Closed, Canary
    <3>2. b \in Activities /\ "ok" \in Results \ {"error"}
      BY DEF Final, Activities, Forward, Results
    <3>3. UNCHANGED pc /\ activity'[w][b] # "ok"
      BY <1>8, <3>1, <3>2, OwnCall
    <3> QED
      BY <1>3, <1>8, <3>3
  <2>4. \A p \in Restoring(r) : p[1] \in Final
    BY <1>2, RestoringCalls
  <2> QED
    BY <1>2, <2>1, <2>2, <2>3, <2>4 DEF Owes, HasMade
<1> QED
  BY <1>1, <1>7, <1>8

\* A debt is paid only by a call that brings the Deployment to rest.
LEMMA DebtStays ==
  ASSUME TypeOK, SagaOrder, History, Counting, [Next]_vars, NEW w \in Workflows,
         NEW r \in Roles, Owes(w, r),
         replicas'[<<input[w].Service, r>>] \notin Rest(input[w].Service, r)
  PROVE  Owes(w, r)'
<1>1. UNCHANGED input /\ input[w] \in CanaryInput
  BY InputStays, CanaryAssumption DEF TypeOK
<1>2. activity'[w][Disturbing(r)] # "none"
  BY ResultsStay DEF Owes, Disturbing, Mutating
<1>3. ASSUME NEW p \in Restoring(r), HasMade(w, p[1], p[2])'
      PROVE  FALSE
  <2> DEFINE a == p[1]
             k == p[2]
  <2>1. /\ a \in Final /\ k \in DOMAIN Calls(a, input[w])
        /\ Calls(a, input[w])[k].op = "scale" /\ Calls(a, input[w])[k].role = r
    BY <1>1, RestoringCalls
  <2>2. a \in Activities
    BY <2>1 DEF Final, Activities, Forward
  <2>3. PICK n \in Nat : DOMAIN Calls(a, input[w]) = 1..n
    BY <1>1, <2>2, CallsApart
  <2>4. ~HasMade(w, a, k)
    BY DEF Owes
  <2>5. IsAt(w, "running") => call[w] \in Nat \ {0}
    BY DEF Counting
  <2> HIDE DEF a, k
  <2>6. CASE activity'[w][a] = "ok"
    <3>1. /\ pc[w] = a /\ IsAt(w, "running")
          /\ call[w] \notin DOMAIN Calls(a, input[w])
      BY <2>2, <2>4, <2>6, OkSource DEF HasMade
    <3>2. call[w] > k
      BY <2>1, <2>3, <2>5, <3>1
    <3> QED
      BY <2>4, <3>1, <3>2 DEF HasMade, IsAt
  <2>7. CASE /\ pc'[w] = a /\ activity'[w][a] = "running" /\ call'[w] > k
             /\ CallSucceeds(w)
    <3>1. /\ pc[w] = a /\ activity[w][a] = "running"
          /\ call'[w] = call[w] + 1 /\ call[w] \in Nat
      BY <2>7 DEF CallSucceeds, attemptFrame, flowVars, TypeOK, AttemptTypeOK
    <3>2. call[w] = k
      <4>1. ~(call[w] > k)
        BY <2>4, <3>1 DEF HasMade
      <4> QED
        BY <2>1, <2>3, <2>7, <3>1, <4>1
    <3>3. Perform(Calls(a, input[w])[k], input[w])
      BY <2>7, <3>1, <3>2 DEF CallSucceeds, NextCall
    <3>4. replicas'[<<input[w].Service, r>>] = Calls(a, input[w])[k].n
      BY <2>1, <2>2, <3>3, OwnWrite
    <3> QED
      BY <1>1, <2>1, <3>4, FinalCalls
  <2>8. CASE /\ pc'[w] = a /\ activity'[w][a] = "running" /\ call'[w] > k
             /\ ~CallSucceeds(w)
    <3>1. \/ call'[w] = 1
          \/ IsAt(w, "running") /\ pc'[w] = pc[w] /\ call'[w] = call[w]
      BY <2>2, <2>8, RunningSource DEF IsAt
    <3>2. call'[w] # 1
      BY <2>1, <2>3, <2>8
    <3> QED
      BY <2>4, <2>8, <3>1, <3>2 DEF HasMade, IsAt
  <2>9. \/ activity'[w][a] = "ok"
        \/ pc'[w] = a /\ activity'[w][a] = "running" /\ call'[w] > k
    BY <1>3 DEF HasMade, a, k
  <2> QED
    BY <2>6, <2>7, <2>8, <2>9
<1> QED
  BY <1>1, <1>2, <1>3 DEF Owes

\* Every step keeps Debts.
LEMMA StepDebts ==
  ASSUME TypeOK, SagaOrder, History, Counting, Debts, [Next]_vars
  PROVE  Debts'
<1>1. UNCHANGED input
  BY InputStays
<1> SUFFICES ASSUME NEW s \in Services, NEW r \in Roles, replicas'[<<s, r>>] \notin Rest(s, r)
             PROVE  \E w \in Workflows : input[w].Service = s /\ (Faulty(w)' \/ Owes(w, r)')
  BY <1>1 DEF Debts, Rest
<1>2. CASE replicas'[<<s, r>>] # replicas[<<s, r>>]
  BY <1>2, DebtBegins
<1>3. CASE replicas'[<<s, r>>] = replicas[<<s, r>>]
  <2>1. PICK w \in Workflows : input[w].Service = s /\ (Faulty(w) \/ Owes(w, r))
    BY <1>3 DEF Debts
  <2> QED
    BY <2>1, FaultyStays, DebtStays
<1> QED
  BY <1>2, <1>3

\* The invariants hold at first and are kept by every step.
LEMMA DebtsInductive == Spec => [](TypeOK /\ SagaOrder /\ History /\ Counting /\ Debts)
<1>1. Init => Counting /\ Debts
  <2> SUFFICES ASSUME Init PROVE Counting /\ Debts
    OBVIOUS
  <2>1. Counting
    BY DEF Init, Counting, IsAt, Activities, Forward, Compensations
  <2>2. ASSUME NEW s \in Services, NEW r \in Roles
        PROVE  replicas[<<s, r>>] \in Rest(s, r)
    <3>1. <<s, r>> \in Deployments
      BY DEF Deployments
    <3>2. replicas[<<s, r>>] = IF r = "stable" THEN BaseReplicas ELSE 0
      BY <3>1 DEF Init, ClusterInit
    <3> QED
      BY <3>2 DEF Rest, Roles
  <2> QED
    BY <2>1, <2>2 DEF Debts
<1>2. TypeOK /\ SagaOrder /\ History /\ Counting /\ Debts /\ [Next]_vars
        => Counting' /\ Debts'
  BY StepCounting, StepDebts
<1> QED
  BY <1>1, <1>2, HistoryInductive, PTL DEF Spec

\* A deploy that has ended without a failed step owes nothing.
LEMMA NothingOwed ==
  ASSUME TypeOK, SagaOrder, History, NEW w \in Workflows, NEW r \in Roles,
         ~Running(w), CleanHistory(w)
  PROVE  ~Faulty(w) /\ ~Owes(w, r)
<1>1. HistoryOf(w) /\ SagaOrderOf(w)
  BY DEF History, SagaOrder
<1>2. ~Faulty(w)
  BY DEF CleanHistory, Faulty
<1> SUFFICES ASSUME Owes(w, r) PROVE FALSE
  BY <1>2
<1>3. /\ activity[w][Disturbing(r)] = "ok"
      /\ \A p \in Restoring(r) : activity[w][p[1]] # "ok"
  BY DEF Owes, HasMade, CleanHistory, Disturbing, Mutating
<1>4. /\ activity[w]["PolicyCheck"] = "ok" /\ pc[w] # "Idle"
      /\ activity[w]["ScaleCanary"] = "ok"
  BY <1>1, <1>3 DEF HistoryOf, Behind, SagaOrderOf, NotReached, Disturbing
<1>5. pc[w] = "Completed"
  BY <1>1, <1>4 DEF Running, Closed, HistoryOf, Behind
<1>6. CASE status[w] \in RollbackStatuses
  <2> DEFINE c == IF r = "canary" THEN Canary ELSE Traffic
  <2>1. c \in Compensations /\ Undone(c) = Disturbing(r)
    BY DEF Undone, Disturbing, Compensations, Canary, Traffic
  <2>2. saga[w] = <<>>
    BY <1>1, <1>5, <1>6 DEF SagaOrderOf, UnwindingStack, RollbackStatuses
  <2>3. activity[w][c] \in {"ok", "error"}
    BY <1>1, <1>3, <1>5, <2>1, <2>2 DEF SagaOrderOf, Covered, Stacked, Compensations, Undone
  <2>4. activity[w][c] = "ok"
    BY <2>1, <2>3 DEF CleanHistory
  <2> QED
    BY <1>3, <2>4 DEF Restoring
<1>7. CASE status[w] = "Promoted"
  <2>1. activity[w]["Promote"] = "ok"
    BY <1>1, <1>7 DEF HistoryOf, Path, Mutating
  <2> QED
    BY <1>3, <2>1 DEF Restoring
<1> QED
  BY <1>1, <1>4, <1>5, <1>6, <1>7 DEF HistoryOf, Path, TypeOK, Statuses, RollbackStatuses, Forward

\* Any number of deploys of one service that overlap, with any retries, lost
\* replies and crashes, leave it whole: see OverlappingDeploysLeaveServiceWhole.
THEOREM OverlapLeavesServiceWhole == Spec => []OverlappingDeploysLeaveServiceWhole
<1>1. TypeOK /\ SagaOrder /\ History /\ Counting /\ Debts
        => OverlappingDeploysLeaveServiceWhole
  <2> SUFFICES ASSUME TypeOK, SagaOrder, History, Debts, NEW s \in Services,
                      \A w \in Workflows : input[w].Service = s =>
                        ~Running(w) /\ CleanHistory(w)
               PROVE  \A r \in Roles : replicas[<<s, r>>] \in Rest(s, r)
    BY DEF OverlappingDeploysLeaveServiceWhole, Rest, Roles, canaryName, stableName
  <2> QED
    BY NothingOwed DEF Debts
<1> QED
  BY <1>1, DebtsInductive, PTL
=============================================================================
