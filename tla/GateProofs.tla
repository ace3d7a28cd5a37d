----------------------------- MODULE GateProofs -----------------------------
(***************************************************************************)
(* Theorems about the two gates in front of a deploy's effects in          *)
(* CanaryDeploy, the policy check and the health bake: nothing is written  *)
(* before the one, nothing on stable before the other, and what is told as *)
(* a policy rejection is one.                                              *)
(***************************************************************************)
EXTENDS SagaProofs

-----------------------------------------------------------------------------
(* What a step can write, and on whose behalf.                             *)

StableWriters == {"ShiftTraffic", "Promote", "ShiftTrafficBack"}
Writers == Mutating \cup Compensations

\* w executes activity a: it awaits it, or a cancelled attempt of it runs on.
Executing(w, a) == pc[w] = a \/ zombie[w].act = a

\* Only the mutating activities and their inverses make calls that write, and
\* only three of them write to stable.
LEMMA WritingCalls ==
  ASSUME NEW a \in Activities, NEW in \in CanaryInput, NEW k \in DOMAIN Calls(a, in),
         Calls(a, in)[k].op \in {"setImage", "scale"}
  PROVE  a \in Writers /\ (Calls(a, in)[k].role = "stable" => a \in StableWriters)
<1> USE DEF Calls, Call, Writers, Mutating, Compensations, StableWriters
<1>1. CASE a = "PolicyCheck"
  BY <1>1 DEF PolicyCheck, DryRunSetImage
<1>2. CASE a = "ScaleCanary"
  BY <1>2 DEF ScaleCanary, SetImage, Scale, DeploymentStatus
<1>3. CASE a = "HealthCheck"
  BY <1>3 DEF HealthCheck, DeploymentStatus, Tick
<1>4. CASE a \in StableWriters
  BY <1>4
<1>5. CASE a = "ScaleDownCanary"
  BY <1>5 DEF ScaleDownCanary, Scale
<1>6. CASE a = "RecordApproval"
  BY <1>6 DEF RecordApproval
<1>7. CASE a = "Alert"
  BY <1>7 DEF Alert
<1> QED
  BY <1>1, <1>2, <1>3, <1>4, <1>5, <1>6, <1>7 DEF Activities, Forward

\* A call writes at most the Deployment of its role, of its own service.
LEMMA PerformWrites ==
  ASSUME TypeOK, NEW in \in CanaryInput, NEW c \in CallType, Perform(c, in),
         NEW d \in Deployments,
         ~(image'[d] = image[d] /\ replicas'[d] = replicas[d])
  PROVE  c.op \in {"setImage", "scale"} /\ d = <<in.Service, c.role>>
  BY DEF TypeOK, ClusterTypeOK, Perform, setImage, scaleDeployment, clusterVars

\* Only a call that takes effect writes to the Deployments.
LEMMA QuietStep ==
  ASSUME [Next]_vars,
         \A w \in Workflows : ~CallSucceeds(w) /\ ~ReplyLost(w) /\ ~ZombieCall(w)
  PROVE  UNCHANGED <<image, replicas>>
<1>1. ASSUME NEW w \in Workflows, StartWorkflow(w) \/ WorkflowTask(w)
      PROVE  UNCHANGED <<image, replicas>>
  BY <1>1 DEF StartWorkflow, WorkflowTask, AfterPolicyCheck, AfterScaleCanary,
       AfterHealthCheck, AfterShiftTraffic, ReceiveApproval, ApprovalTimeout,
       AfterRecordApproval, AfterPromote, AfterCompensation, AfterAlert,
       taskFrame, clusterVars
<1>2. ASSUME NEW w \in Workflows,
             \/ StartAttempt(w) \/ CallFails(w) \/ ActivityReturns(w)
             \/ AttemptTimesOut(w) \/ CancelActivity(w) \/ ZombieStops(w)
             \/ Approve(w) \/ Cancel(w)
      PROVE  UNCHANGED <<image, replicas>>
  BY <1>2 DEF StartAttempt, CallFails, ActivityReturns, AttemptTimesOut,
       CancelActivity, ZombieStops, Approve, Cancel, clusterVars
<1>3. CASE BuildClient \/ Crash \/ Restart \/ PodChange \/ UNCHANGED vars
  BY <1>3 DEF BuildClient, Crash, Restart, PodChange, PodReady, PodLost,
       workerFrame, clusterVars, vars
<1> QED
  BY <1>1, <1>2, <1>3 DEF Next, Attempt

\* A step writes a Deployment only for an execution that deploys its service and
\* executes an activity that writes there.
LEMMA WriteStep ==
  ASSUME TypeOK, [Next]_vars, NEW d \in Deployments,
         ~(image'[d] = image[d] /\ replicas'[d] = replicas[d])
  PROVE  \E w \in Workflows : \E a \in Writers :
           /\ input[w].Service = d[1]
           /\ Executing(w, a)
           /\ d[2] = "stable" => a \in StableWriters
<1>1. ASSUME NEW w \in Workflows, NEW a \in Activities, Executing(w, a),
             NEW k \in DOMAIN Calls(a, input[w]),
             Perform(Calls(a, input[w])[k], input[w])
      PROVE  /\ a \in Writers /\ input[w].Service = d[1]
             /\ d[2] = "stable" => a \in StableWriters
  <2> DEFINE c == Calls(a, input[w])[k]
  <2>1. input[w] \in CanaryInput
    BY CanaryAssumption DEF TypeOK
  <2>2. c \in CallType
    BY <2>1, CallFacts
  <2>3. c.op \in {"setImage", "scale"} /\ d = <<input[w].Service, c.role>>
    <3> HIDE DEF c
    <3>1. Perform(c, input[w])
      BY <1>1 DEF c
    <3> QED
      BY <2>1, <2>2, <3>1, PerformWrites
  <2>4. a \in Writers /\ (c.role = "stable" => a \in StableWriters)
    BY <2>1, <2>3, WritingCalls
  <2> HIDE DEF c
  <2> QED
    BY <2>3, <2>4
<1>2. ASSUME NEW w \in Workflows, CallSucceeds(w) \/ ReplyLost(w) \/ ZombieCall(w)
      PROVE  \E a \in Activities : \E k \in DOMAIN Calls(a, input[w]) :
               Executing(w, a) /\ Perform(Calls(a, input[w])[k], input[w])
  <2>1. CASE CallSucceeds(w) \/ ReplyLost(w)
    BY <2>1 DEF CallSucceeds, ReplyLost, Calling, NextCall, IsAt, Executing
  <2>2. CASE ZombieCall(w)
    <3>1. zombie[w].act \in Activities
      BY <2>2 DEF ZombieCall, ZombieCalling, TypeOK, Zombies, Mutating, Activities, Forward
    <3> QED
      BY <2>2, <3>1 DEF ZombieCall, ZombieCalling, Executing
  <2> QED
    BY <1>2, <2>1, <2>2
<1>3. \E w \in Workflows : CallSucceeds(w) \/ ReplyLost(w) \/ ZombieCall(w)
  BY QuietStep
<1> QED
  BY <1>1, <1>2, <1>3

-----------------------------------------------------------------------------
(* The invariant: where an execution stands says which gates let it pass.  *)

\* The same for its zombie.
PassedGates(w) ==
  /\ pc[w] = "Idle" => activity[w]["PolicyCheck"] = "none"
  /\ \/ pc[w] \in (Activities \ {"PolicyCheck", "Alert"}) \cup {"Gate"}
     \/ zombie[w].act \in Mutating
     => activity[w]["PolicyCheck"] = "ok"
  /\ \/ pc[w] \in StableWriters \cup {"Gate", "RecordApproval"}
     \/ zombie[w].act \in {"ShiftTraffic", "Promote"}
     => activity[w]["HealthCheck"] = "ok"

Gates == \A w \in Workflows : PassedGates(w)

\* The steps a workflow task can take between two points where it blocks.
Moves(w, a) ==
  \/ pc[w] = "Idle" /\ a = "PolicyCheck"
  \/ pc[w] = "PolicyCheck" /\ a \in {"Alert"} \cup Closed
  \/ pc[w] = "PolicyCheck" /\ activity[w]["PolicyCheck"] = "ok" /\ a = "ScaleCanary"
  \/ pc[w] = "ScaleCanary" /\ a = "HealthCheck"
  \/ pc[w] = "HealthCheck" /\ activity[w]["HealthCheck"] = "ok" /\ a = "ShiftTraffic"
  \/ pc[w] = "ShiftTraffic" /\ a \in {"RecordApproval", "Gate"}
  \/ pc[w] = "Gate" /\ a = "RecordApproval"
  \/ pc[w] = "RecordApproval" /\ a = "Promote"
  \/ pc[w] \in {"Promote", "Alert"} /\ a \in Closed
  \/ /\ pc[w] \in Activities \ {"PolicyCheck", "Alert"}
     /\ \/ a = "Alert"
        \/ a = Canary
        \/ a = Traffic /\ saga[w] = <<Canary, Traffic>>

\* A workflow task makes one of these moves and starts nothing but its target.
LEMMA TaskMoves ==
  ASSUME TypeOK, SagaOrder, NEW w \in Workflows, StartWorkflow(w) \/ WorkflowTask(w)
  PROVE  \E a : /\ Moves(w, a) /\ pc'[w] = a
                /\ \A b \in Activities \ {a} : activity'[w][b] = activity[w][b]
<1> DEFINE Goal == \E a : /\ Moves(w, a) /\ pc'[w] = a
                          /\ \A b \in Activities \ {a} : activity'[w][b] = activity[w][b]
<1>1. ASSUME NEW a \in Activities, Schedule(w, a), Moves(w, a)
      PROVE  Goal
  BY <1>1, ScheduleEffect
<1>2. ASSUME NEW how \in Closed, Close(w, how), Moves(w, how)
      PROVE  Goal
  BY <1>2, CloseControl
<1>3. ASSUME compensate(w), pc[w] \in Activities \ {"PolicyCheck", "Alert"}
      PROVE  Goal
  <2>1. \/ Schedule(w, "Alert")
        \/ Schedule(w, Canary)
        \/ saga[w] = <<Canary, Traffic>> /\ Schedule(w, Traffic)
    BY <1>3, compensateEffect DEF SagaOrder, SagaOrderOf
  <2> QED
    BY <1>1, <1>3, <2>1 DEF Moves, Activities, Compensations, Canary, Traffic
<1> USE DEF Resumes, Activities, Forward, Compensations
<1>4. CASE StartWorkflow(w)
  BY <1>1, <1>4 DEF StartWorkflow, Proceed, Moves
<1>5. CASE AfterPolicyCheck(w)
  BY <1>1, <1>2, <1>5 DEF AfterPolicyCheck, Proceed, Moves, Closed
<1>6. CASE AfterScaleCanary(w)
  BY <1>1, <1>3, <1>6 DEF AfterScaleCanary, Proceed, unwind, Moves
<1>7. CASE AfterHealthCheck(w)
  BY <1>1, <1>3, <1>7 DEF AfterHealthCheck, Proceed, unwind, Moves
<1>8. CASE AfterShiftTraffic(w)
  <2>1. CASE pc[w] = "ShiftTraffic" /\ pc' = [pc EXCEPT ![w] = "Gate"] /\ UNCHANGED activity
    <3>1. pc'[w] = "Gate" /\ Moves(w, "Gate")
      BY <2>1 DEF TypeOK, AttemptTypeOK, Moves
    <3> QED
      BY <2>1, <3>1
  <2>2. CASE pc[w] = "ShiftTraffic" /\ Schedule(w, "RecordApproval")
    BY <1>1, <2>2 DEF Moves
  <2>3. CASE pc[w] = "ShiftTraffic" /\ compensate(w)
    BY <1>3, <2>3
  <2> QED
    BY <1>8, <2>1, <2>2, <2>3 DEF AfterShiftTraffic, unwind
<1>9. CASE ReceiveApproval(w) \/ ApprovalTimeout(w)
  BY <1>1, <1>9 DEF ReceiveApproval, ApprovalTimeout, Moves
<1>10. CASE AfterRecordApproval(w)
  BY <1>1, <1>3, <1>10 DEF AfterRecordApproval, Proceed, unwind, Moves
<1>11. CASE AfterPromote(w)
  BY <1>2, <1>3, <1>11 DEF AfterPromote, unwind, Moves, Closed
<1>12. CASE AfterCompensation(w)
  BY <1>3, <1>12 DEF AfterCompensation
<1>13. CASE AfterAlert(w)
  BY <1>2, <1>13 DEF AfterAlert, Moves, Closed
<1> QED
  BY <1>4, <1>5, <1>6, <1>7, <1>8, <1>9, <1>10, <1>11, <1>12, <1>13 DEF WorkflowTask

\* A workflow task keeps the invariant of its execution.
LEMMA TaskKeepsGates ==
  ASSUME TypeOK, SagaOrder, ApprovalOrder, NEW w \in Workflows, PassedGates(w),
         StartWorkflow(w) \/ WorkflowTask(w)
  PROVE  /\ PassedGates(w)'
         /\ \A a \in {"PolicyCheck", "HealthCheck"} :
              activity[w][a] = "ok" => activity'[w][a] = "ok"
<1>1. UNCHANGED zombie
  BY TaskFrame
<1>2. PICK a : /\ Moves(w, a) /\ pc'[w] = a
               /\ \A b \in Activities \ {a} : activity'[w][b] = activity[w][b]
  BY TaskMoves
<1>3. {"PolicyCheck", "HealthCheck"} \subseteq Activities
  BY DEF Activities, Forward
\* The results of both gates are already there, or not yet.
<1>4. pc[w] \in {"Idle", "PolicyCheck", "ScaleCanary"} => activity[w]["HealthCheck"] = "none"
  BY DEF ApprovalOrder, ApprovalOrderOf
<1>5. saga[w] = <<Canary, Traffic>> /\ pc[w] \in Activities \ {"PolicyCheck", "Alert"}
        => pc[w] \in {"RecordApproval", "Promote"}
  BY DEF SagaOrder, SagaOrderOf, ForwardStack, UnwindingStack, Activities, Forward,
     Compensations, Canary, Traffic
<1>6. a = "PolicyCheck" => activity[w]["PolicyCheck"] = "none"
  BY <1>2 DEF PassedGates, Moves, Closed, Canary, Traffic
<1>7. a = "HealthCheck" => activity[w]["HealthCheck"] = "none"
  BY <1>2, <1>4 DEF Moves, Closed, Canary, Traffic
<1>8. \A b \in {"PolicyCheck", "HealthCheck"} :
        activity[w][b] = "ok" => activity'[w][b] = "ok"
  BY <1>2, <1>3, <1>6, <1>7
<1>9. a # "Idle"
  BY <1>2 DEF Moves, Closed, Canary, Traffic
<1>10. \/ a \in (Activities \ {"PolicyCheck", "Alert"}) \cup {"Gate"}
       \/ zombie[w].act \in Mutating
       => activity[w]["PolicyCheck"] = "ok"
  BY <1>2 DEF PassedGates, Moves, Closed, Canary, Traffic, Activities, Forward,
     Compensations
<1>11. \/ a \in StableWriters \cup {"Gate", "RecordApproval"}
       \/ zombie[w].act \in {"ShiftTraffic", "Promote"}
       => activity[w]["HealthCheck"] = "ok"
  BY <1>2, <1>5 DEF PassedGates, Moves, StableWriters, Closed, Canary, Traffic
<1> QED
  BY <1>1, <1>2, <1>8, <1>9, <1>10, <1>11 DEF PassedGates

\* A zombie is what is left of the cancelled attempt of the activity awaited.
LEMMA ZombieSteps ==
  ASSUME TypeOK, [Next]_vars,
         \A w \in Workflows : ~StartWorkflow(w) /\ ~WorkflowTask(w),
         NEW v \in Workflows
  PROVE  \/ zombie'[v].act = zombie[v].act
         \/ zombie'[v] = NoZombie
         \/ zombie'[v].act = pc[v]
<1>1. CASE \E w \in Workflows : CancelActivity(w)
  BY <1>1 DEF CancelActivity, TypeOK
<1>2. CASE \E w \in Workflows : ZombieCall(w)
  <2> PICK w \in Workflows : ZombieCall(w)
    BY <1>2
  <2>1. zombie[w] \in [act : Mutating, call : Nat]
    BY DEF ZombieCall, ZombieCalling, TypeOK, Zombies
  <2>2. zombie' = [zombie EXCEPT ![w] = [zombie[w] EXCEPT !.call = @ + 1]]
    BY DEF ZombieCall
  <2> QED
    BY <2>1, <2>2, ZombieMoves DEF TypeOK
<1>3. CASE \E w \in Workflows : ZombieStops(w)
  BY <1>3 DEF ZombieStops, TypeOK
<1>4. CASE Crash
  BY <1>4 DEF Crash
<1>5. CASE UNCHANGED zombie
  BY <1>5
<1> QED
  BY <1>1, <1>2, <1>3, <1>4, <1>5 DEF Next, Attempt, StartAttempt, CallSucceeds, CallFails,
     ReplyLost, ActivityReturns, AttemptTimesOut, attemptFrame, Approve, Cancel,
     BuildClient, Restart, PodChange, vars

\* Every step keeps the invariant, and a gate that has let w pass stays passed.
LEMMA StepGates ==
  ASSUME TypeOK, SagaOrder, ApprovalOrder, Gates, [Next]_vars, NEW v \in Workflows
  PROVE  /\ PassedGates(v)'
         /\ \A a \in {"PolicyCheck", "HealthCheck"} :
              activity[v][a] = "ok" => activity'[v][a] = "ok"
<1>1. ASSUME NEW w \in Workflows, StartWorkflow(w) \/ WorkflowTask(w), v # w
      PROVE  pc'[v] = pc[v] /\ activity'[v] = activity[v] /\ UNCHANGED zombie
  BY <1>1, TaskFrame
<1>2. CASE \E w \in Workflows : StartWorkflow(w) \/ WorkflowTask(w)
  BY <1>1, <1>2, TaskKeepsGates DEF Gates, PassedGates
<1>3. CASE \A w \in Workflows : ~StartWorkflow(w) /\ ~WorkflowTask(w)
  <2>1. UNCHANGED pc
    BY <1>3, ActivitySteps
  <2>2. {"PolicyCheck", "HealthCheck"} \subseteq Activities
    BY DEF Activities, Forward
  <2>3. \A a \in {"PolicyCheck", "HealthCheck"} :
          activity[v][a] \in {"none", "ok"} => activity'[v][a] = activity[v][a]
    BY <1>3, <2>2, ActivitySteps DEF Pending
  <2>4. \/ zombie'[v].act = zombie[v].act
        \/ zombie'[v].act = "none"
        \/ zombie'[v].act = pc[v]
    BY <1>3, ZombieSteps DEF NoZombie
  <2> QED
    BY <2>1, <2>3, <2>4
       DEF Gates, PassedGates, Mutating, StableWriters, Activities, Forward
<1> QED
  BY <1>2, <1>3

-----------------------------------------------------------------------------
(* The theorems.                                                           *)

\* The invariants hold at first and are kept by every step.
LEMMA GatesInductive == Spec => [](TypeOK /\ SagaOrder /\ ApprovalOrder /\ Gates)
<1>1. Init => ApprovalOrder /\ Gates
  <2> SUFFICES ASSUME Init, NEW w \in Workflows
               PROVE  ApprovalOrderOf(w) /\ PassedGates(w)
    BY DEF ApprovalOrder, Gates
  <2>1. /\ pc[w] = "Idle" /\ decision[w] = "none" /\ zombie[w].act = "none"
        /\ \A a \in Activities : activity[w][a] = "none"
    BY DEF Init, NoZombie
  <2> QED
    BY <2>1 DEF ApprovalOrderOf, BeforeDecision, Promoting, PassedGates, Mutating,
       StableWriters, Activities, Forward, Compensations
<1>2. TypeOK /\ SagaOrder /\ ApprovalOrder /\ Gates /\ [Next]_vars
        => ApprovalOrder' /\ Gates'
  BY StepOrder, StepGates DEF Gates
<1> QED
  BY <1>1, <1>2, SagaInductive, PTL DEF Spec

\* Inputs do not change.
LEMMA InputStays ==
  ASSUME TypeOK, [Next]_vars
  PROVE  UNCHANGED input
BY TaskFrame, OtherSteps

\* Nothing of a service is written but by the sole deploy of it.
LEMMA SoleWriter ==
  ASSUME TypeOK, [Next]_vars, NEW w \in Workflows, SoleDeploy(w), NEW r \in Roles,
         LET d == <<input[w].Service, r>>
         IN  ~(image'[d] = image[d] /\ replicas'[d] = replicas[d])
  PROVE  \E a \in Writers : Executing(w, a) /\ (r = "stable" => a \in StableWriters)
<1> DEFINE d == <<input[w].Service, r>>
<1>1. d \in Deployments /\ d[1] = input[w].Service /\ d[2] = r
  BY CanaryAssumption DEF Deployments, TypeOK, CanaryInput
<1>2. ~(image'[d] = image[d] /\ replicas'[d] = replicas[d])
  OBVIOUS
<1> HIDE DEF d
<1>3. PICK v \in Workflows : \E a \in Writers :
        /\ input[v].Service = d[1]
        /\ Executing(v, a)
        /\ d[2] = "stable" => a \in StableWriters
  BY <1>1, <1>2, WriteStep
<1> QED
  BY <1>1, <1>3 DEF SoleDeploy

\* Nothing is written before the policy check has let a deploy pass: see
\* NoWriteBeforePolicy.
THEOREM PolicyFirst == Spec => []NoWriteBeforePolicy
<1>1. Init => NoWriteBeforePolicy
  BY CanaryAssumption DEF Init, ClusterInit, NoWriteBeforePolicy, StableUntouched,
     CanaryUntouched, stableName, canaryName, Deployments, Roles, CanaryInput
<1>2. /\ TypeOK /\ SagaOrder /\ ApprovalOrder /\ Gates /\ NoWriteBeforePolicy
      /\ [Next]_vars
      => NoWriteBeforePolicy'
  <2> SUFFICES ASSUME TypeOK, SagaOrder, ApprovalOrder, Gates, NoWriteBeforePolicy,
                      [Next]_vars, NEW w \in Workflows, SoleDeploy(w)',
                      activity'[w]["PolicyCheck"] # "ok"
               PROVE  StableUntouched(input[w].Service)' /\ CanaryUntouched(input[w].Service)'
    BY DEF NoWriteBeforePolicy
  <2>1. UNCHANGED input /\ SoleDeploy(w)
    BY InputStays DEF SoleDeploy
  <2>2. activity[w]["PolicyCheck"] # "ok"
    BY StepGates
  <2>3. \A a \in Writers : ~Executing(w, a)
    <3>1. zombie[w].act \in Mutating \cup {"none"}
      BY DEF TypeOK, Zombies, NoZombie
    <3> QED
      BY <2>2, <3>1 DEF Gates, PassedGates, Executing, Writers, Mutating, Compensations,
         Activities, Forward
  <2>4. \A r \in Roles : LET d == <<input[w].Service, r>>
                         IN  image'[d] = image[d] /\ replicas'[d] = replicas[d]
    BY <2>1, <2>3, SoleWriter
  <2>5. StableUntouched(input[w].Service) /\ CanaryUntouched(input[w].Service)
    BY <2>1, <2>2 DEF NoWriteBeforePolicy
  <2> QED
    BY <2>1, <2>4, <2>5 DEF StableUntouched, CanaryUntouched, stableName, canaryName, Roles
<1> QED
  BY <1>1, <1>2, GatesInductive, PTL DEF Spec

\* Stable is not written before the bake has ended healthy: see
\* NoStableWriteBeforeHealthy.
THEOREM HealthFirst == Spec => []NoStableWriteBeforeHealthy
<1>1. Init => NoStableWriteBeforeHealthy
  BY CanaryAssumption DEF Init, ClusterInit, NoStableWriteBeforeHealthy,
     StableUntouched, stableName, Deployments, Roles, CanaryInput
<1>2. /\ TypeOK /\ SagaOrder /\ ApprovalOrder /\ Gates /\ NoStableWriteBeforeHealthy
      /\ [Next]_vars
      => NoStableWriteBeforeHealthy'
  <2> SUFFICES ASSUME TypeOK, SagaOrder, ApprovalOrder, Gates, NoStableWriteBeforeHealthy,
                      [Next]_vars, NEW w \in Workflows, SoleDeploy(w)',
                      activity'[w]["HealthCheck"] # "ok"
               PROVE  StableUntouched(input[w].Service)'
    BY DEF NoStableWriteBeforeHealthy
  <2>1. UNCHANGED input /\ SoleDeploy(w)
    BY InputStays DEF SoleDeploy
  <2>2. activity[w]["HealthCheck"] # "ok"
    BY StepGates
  <2>3. \A a \in StableWriters : ~Executing(w, a)
    <3>1. zombie[w].act \in Mutating \cup {"none"}
      BY DEF TypeOK, Zombies, NoZombie
    <3> QED
      BY <2>2, <3>1 DEF Gates, PassedGates, Executing, StableWriters, Mutating
  <2>4. LET d == <<input[w].Service, "stable">>
        IN  image'[d] = image[d] /\ replicas'[d] = replicas[d]
    BY <2>1, <2>3, SoleWriter DEF Roles
  <2>5. StableUntouched(input[w].Service)
    BY <2>1, <2>2 DEF NoStableWriteBeforeHealthy
  <2> QED
    BY <2>1, <2>4, <2>5 DEF StableUntouched, stableName
<1> QED
  BY <1>1, <1>2, GatesInductive, PTL DEF Spec

-----------------------------------------------------------------------------
(* Rejections.                                                             *)

\* The webhook denies the image of w, or its rejection is injected.
Denied(w) == input[w].ImageTag \notin Admitted \/ "policy" \in input[w].Simulate

RejectionsDenied ==
  \A w \in Workflows :
    activity[w]["PolicyCheck"] = "rejected" \/ status[w] = "PolicyRejected" => Denied(w)

\* A policy check ends as rejected only when the image is denied: what isInfraError
\* lets through is the webhook's answer, if no other status is injected.
LEMMA RejectionSource ==
  ASSUME TypeOK, "status" \notin Faults, [Next]_vars, NEW v \in Workflows,
         activity'[v]["PolicyCheck"] = "rejected",
         activity[v]["PolicyCheck"] # "rejected"
  PROVE  Denied(v)
<1>1. "PolicyCheck" \in Activities
  BY DEF Activities, Forward
<1>2. ASSUME NEW w \in Workflows, NEW r, activity' = [activity EXCEPT ![w][pc[w]] = r]
      PROVE  v = w /\ pc[w] = "PolicyCheck" /\ r = "rejected"
  BY <1>1, <1>2 DEF TypeOK, AttemptTypeOK
<1>3. ASSUME NEW w \in Workflows, StartWorkflow(w) \/ WorkflowTask(w)
      PROVE  FALSE
  <2>1. ASSUME NEW a, Schedule(w, a)
        PROVE  FALSE
    BY <1>1, <2>1 DEF Schedule, TypeOK, AttemptTypeOK
  <2>2. \/ \E a : Schedule(w, a)
        \/ UNCHANGED activity
    BY <1>3 DEF StartWorkflow, WorkflowTask, AfterPolicyCheck, AfterScaleCanary,
       AfterHealthCheck, AfterShiftTraffic, ReceiveApproval, ApprovalTimeout,
       AfterRecordApproval, AfterPromote, AfterCompensation, AfterAlert,
       Proceed, unwind, compensate, Close
  <2> QED
    BY <2>1, <2>2
<1>4. ASSUME NEW w \in Workflows, Attempt(w)
      PROVE  Denied(v)
  <2>1. CASE StartAttempt(w)
    BY <1>2, <2>1 DEF StartAttempt
  <2>2. CASE FailAttempt(w)
    BY <1>2, <2>2 DEF FailAttempt, Finish
  <2>3. CASE CallFails(w) /\ Finish(w, "rejected")
    <3>1. v = w
      BY <1>2, <2>3 DEF Finish
    <3>2. PICK e \in ApiErrors :
            /\ e \in OtherStatus \ {"AdmissionDenied"} => "status" \in Faults
            /\ e = "AdmissionDenied" => input[w].ImageTag \notin Admitted
            /\ ~isInfraError(e)
      <4>1. ~FailAttempt(w)
        BY <1>2, <2>3 DEF FailAttempt, Finish
      <4> QED
        BY <2>3, <4>1 DEF CallFails
    <3>3. e \in OtherStatus
      BY <3>2 DEF isInfraError, APIStatus
    <3> QED
      BY <3>1, <3>2, <3>3 DEF Denied
  <2>4. CASE ActivityReturns(w)
    <3>1. ~FailAttempt(w)
      BY <1>2 DEF FailAttempt, Finish
    <3>2. PICK r : Finish(w, r) /\ (pc[w] = "PolicyCheck" /\ r = "rejected"
                                      => "policy" \in input[w].Simulate)
      <4>1. CASE pc[w] = "PolicyCheck"
        BY <2>4, <3>1, <4>1 DEF ActivityReturns
      <4>2. CASE pc[w] # "PolicyCheck"
        BY <2>4, <3>1, <4>2 DEF ActivityReturns
      <4> QED
        BY <4>1, <4>2
    <3> QED
      BY <1>2, <3>2 DEF Finish, Denied
  <2>5. CASE CancelActivity(w)
    BY <1>2, <2>5 DEF CancelActivity, Finish
  <2> QED
    BY <1>4, <2>1, <2>2, <2>3, <2>4, <2>5 DEF Attempt, CallSucceeds, CallFails, ReplyLost,
       AttemptTimesOut, ZombieCall, ZombieStops, zombieFrame
<1>5. CASE Crash
  BY <1>1, <1>5 DEF Crash
<1>6. CASE (\E w \in Workflows : Approve(w) \/ Cancel(w)) \/ BuildClient \/ Restart
           \/ PodChange \/ UNCHANGED vars
  BY <1>6 DEF Approve, Cancel, BuildClient, Restart, PodChange, vars
<1> QED
  BY <1>3, <1>4, <1>5, <1>6 DEF Next

\* A deploy gets the status from such a check.
LEMMA StatusSource ==
  ASSUME TypeOK, [Next]_vars, NEW v \in Workflows,
         status'[v] = "PolicyRejected", status[v] # "PolicyRejected"
  PROVE  activity[v]["PolicyCheck"] = "rejected"
<1>1. PICK w \in Workflows : StartWorkflow(w) \/ WorkflowTask(w)
  BY ActivitySteps
<1>2. v = w
  BY <1>1, SagaFrame
<1>3. AfterPolicyCheck(w)
  BY <1>1, <1>2 DEF StartWorkflow, WorkflowTask, AfterScaleCanary, AfterHealthCheck,
     AfterShiftTraffic, ReceiveApproval, ApprovalTimeout, AfterRecordApproval,
     AfterPromote, AfterCompensation, AfterAlert, unwind, TypeOK
<1> QED
  BY <1>2, <1>3 DEF AfterPolicyCheck, Resumes, TypeOK

\* PolicyRejected is the webhook's word, with any number of outages, unusable
\* clients and retries: see RejectedMeansDenied.
THEOREM RejectionIsDenial ==
  ASSUME "status" \notin Faults
  PROVE  Spec => []RejectedMeansDenied
<1>1. Init => RejectionsDenied
  BY DEF Init, RejectionsDenied, Activities, Forward
<1>2. TypeOK /\ RejectionsDenied /\ [Next]_vars => RejectionsDenied'
  <2> SUFFICES ASSUME TypeOK, RejectionsDenied, [Next]_vars, NEW v \in Workflows,
                      \/ activity'[v]["PolicyCheck"] = "rejected"
                      \/ status'[v] = "PolicyRejected"
               PROVE  Denied(v)'
    BY DEF RejectionsDenied
  <2>1. Denied(v)
    BY RejectionSource, StatusSource DEF RejectionsDenied
  <2> QED
    BY <2>1, InputStays DEF Denied
<1>3. RejectionsDenied => RejectedMeansDenied
  BY DEF RejectionsDenied, RejectedMeansDenied, Denied
<1> QED
  BY <1>1, <1>2, <1>3, TypeCorrect, PTL DEF Spec
=============================================================================
