------------------------- MODULE CanaryDeployProofs -------------------------
(***************************************************************************)
(* Theorems of CanaryDeploy for every set of services, images, executions  *)
(* and inputs, with their proofs.                                          *)
(***************************************************************************)
EXTENDS CanaryDeploy, TLAPS

-----------------------------------------------------------------------------
(* Facts about the replica split and the client calls of the activities.   *)

\* Half of a total of at least one, rounded, is a natural number, and leaves
\* something of a total greater than one.
LEMMA HalfShare ==
  ASSUME NEW n \in Nat
  PROVE  /\ CanaryShare(n, CanaryWeight) \in Nat
         /\ StableShare(n, CanaryWeight) \in Nat
         /\ n > 1 => StableShare(n, CanaryWeight) > 0
  BY DEF CanaryShare, StableShare, RoundedShare, AtLeastOne, CanaryWeight

\* Every call an attempt can make is a call the cluster knows; only Promote
\* writes stable's image, and no call scales stable to zero when the deploy
\* asks for more than one replica.
LEMMA CallFacts ==
  ASSUME NEW a \in Activities, NEW in \in CanaryInput,
         NEW k \in DOMAIN Calls(a, in)
  PROVE  LET c == Calls(a, in)[k]
         IN  /\ c \in CallType
             /\ c.op = "setImage" /\ c.role = "stable" => a = "Promote"
             /\ c.op = "scale" /\ c.role = "stable" /\ in.TargetReplicas > 1 => c.n > 0
<1> USE DEF Calls, Call, CallType, Roles, CanaryInput
<1>1. CASE a = "PolicyCheck"
  BY <1>1 DEF PolicyCheck, DryRunSetImage
<1>2. CASE a = "ScaleCanary"
  BY <1>2 DEF ScaleCanary, SetImage, Scale, DeploymentStatus
<1>3. CASE a = "HealthCheck"
  BY <1>3 DEF HealthCheck, DeploymentStatus, Tick
<1>4. CASE a = "ShiftTraffic"
  <2> DEFINE c == CanaryShare(in.TargetReplicas, CanaryWeight)
             s == StableShare(in.TargetReplicas, CanaryWeight)
  <2>1. c \in Nat /\ s \in Nat /\ (in.TargetReplicas > 1 => s > 0)
    BY HalfShare
  <2>2. Calls(a, in) = ShiftTraffic(in)
    BY <1>4
  <2>3. ShiftTraffic(in) \in {<<>>, << Scale("canary", c), Scale("stable", s) >>}
    BY DEF ShiftTraffic
  <2> HIDE DEF c, s
  <2> QED
    BY <1>4, <2>1, <2>2, <2>3 DEF Scale
<1>5. CASE a = "Promote"
  BY <1>5 DEF Promote, SetImage, Scale
<1>6. CASE a = "ScaleDownCanary"
  BY <1>6 DEF ScaleDownCanary, Scale
<1>7. CASE a = "ShiftTrafficBack"
  BY <1>7 DEF ShiftTrafficBack, Scale, AtLeastOne
<1>8. CASE a = "RecordApproval"
  BY <1>8 DEF RecordApproval
<1>9. CASE a = "Alert"
  BY <1>9 DEF Alert
<1> QED
  BY <1>1, <1>2, <1>3, <1>4, <1>5, <1>6, <1>7, <1>8, <1>9
     DEF Activities, Forward, Compensations

-----------------------------------------------------------------------------
(* Type correctness.                                                       *)

\* Scheduling an activity keeps the executions' progress well typed.
LEMMA ScheduleType ==
  ASSUME AttemptTypeOK, NEW w \in Workflows, NEW a \in Activities, Schedule(w, a)
  PROVE  AttemptTypeOK'
  BY DEF AttemptTypeOK, Schedule, Positions, Pending, Results

\* So does closing an execution.
LEMMA CloseType ==
  ASSUME AttemptTypeOK, NEW w \in Workflows, NEW how \in Closed, Close(w, how)
  PROVE  AttemptTypeOK'
  BY DEF AttemptTypeOK, Close, Positions, attemptVars

\* So does the end of an activity, with any result.
LEMMA FinishType ==
  ASSUME AttemptTypeOK, NEW w \in Workflows, NEW r \in Results, Finish(w, r),
         UNCHANGED pc
  PROVE  AttemptTypeOK'
  BY DEF AttemptTypeOK, Finish

\* So does a failed attempt, whether it is retried or was the last one.
LEMMA FailAttemptType ==
  ASSUME AttemptTypeOK, NEW w \in Workflows, FailAttempt(w), UNCHANGED pc
  PROVE  AttemptTypeOK'
<1>1. CASE Finish(w, "error")
  BY <1>1 DEF AttemptTypeOK, Finish, Results
<1>2. CASE /\ activity' = [activity EXCEPT ![w][pc[w]] = "queued"]
           /\ attempt' = [attempt EXCEPT ![w] = @ + 1]
           /\ call' = [call EXCEPT ![w] = 0]
           /\ verdict' = [verdict EXCEPT ![w] = FALSE]
  <2>1. activity' \in [Workflows -> [Activities -> {"none"} \cup Pending \cup Results]]
    BY <1>2 DEF AttemptTypeOK, Pending
  <2>2. attempt' \in [Workflows -> Nat]
    BY <1>2 DEF AttemptTypeOK
  <2> QED
    BY <1>2, <2>1, <2>2 DEF AttemptTypeOK
<1> QED
  BY <1>1, <1>2 DEF FailAttempt

\* The most recent compensation and the stack without it.
LEMMA PopType ==
  ASSUME NEW S, NEW stack \in Seq(S), stack # <<>>
  PROVE  /\ stack[Len(stack)] \in S
         /\ SubSeq(stack, 1, Len(stack) - 1) \in Seq(S)
  OBVIOUS

\* Unwinding one entry of the saga keeps the progress and the saga well typed.
LEMMA compensateType ==
  ASSUME AttemptTypeOK, saga \in [Workflows -> Seq(Compensations)],
         NEW w \in Workflows, compensate(w)
  PROVE  AttemptTypeOK' /\ saga' \in [Workflows -> Seq(Compensations)]
<1>1. CASE saga[w] = <<>>
  BY <1>1, ScheduleType DEF compensate, Activities
<1>2. CASE saga[w] # <<>>
  <2>1. /\ saga[w][Len(saga[w])] \in Compensations
        /\ SubSeq(saga[w], 1, Len(saga[w]) - 1) \in Seq(Compensations)
    BY <1>2, PopType
  <2>2. /\ Schedule(w, saga[w][Len(saga[w])])
        /\ saga' = [saga EXCEPT ![w] = SubSeq(@, 1, Len(@) - 1)]
    BY <1>2 DEF compensate
  <2> QED
    BY <2>1, <2>2, ScheduleType DEF Activities
<1> QED
  BY <1>1, <1>2

\* What an activity's call does to the cluster keeps the cluster well typed.
LEMMA PerformType ==
  ASSUME ClusterTypeOK, NEW in \in CanaryInput, NEW c \in CallType, Perform(c, in)
  PROVE  ClusterTypeOK'
  BY DEF ClusterTypeOK, Perform, CallType, CanaryInput, setImage, scaleDeployment,
         clusterVars, Deployments

\* A zombie that has made a call is still a zombie of the same activity.
LEMMA ZombieMoves ==
  ASSUME NEW S, NEW z \in [act : S, call : Nat]
  PROVE  /\ [z EXCEPT !.call = @ + 1] \in [act : S, call : Nat]
         /\ [z EXCEPT !.call = @ + 1].act = z.act
  OBVIOUS

\* Initial states are well typed.
LEMMA InitType == Init => TypeOK
<1> SUFFICES ASSUME Init PROVE TypeOK
  OBVIOUS
<1> USE CanaryAssumption, ClusterAssumption DEF Init
<1>1. ClusterTypeOK
  BY DEF ClusterTypeOK, ClusterInit, Deployments
<1>2. AttemptTypeOK
  BY DEF AttemptTypeOK, Positions
<1> QED
  BY <1>1, <1>2 DEF TypeOK, Phases, Statuses, Decisions, Zombies

\* Every step keeps the type invariant: one case per action of Next.
LEMMA StepType == TypeOK /\ [Next]_vars => TypeOK'
<1> SUFFICES ASSUME TypeOK, [Next]_vars PROVE TypeOK'
  OBVIOUS
<1> USE CanaryAssumption DEF TypeOK
<1>1. ASSUME NEW w \in Workflows, WorkflowTask(w) \/ StartWorkflow(w)
      PROVE  TypeOK'
  <2>0. /\ UNCHANGED taskFrame
        /\ ClusterTypeOK' /\ input' \in [Workflows -> Inputs]
        /\ signals' \in [Workflows -> Seq(Signals)]
        /\ cancelled' \in [Workflows -> BOOLEAN]
        /\ zombie' \in [Workflows -> Zombies]
        /\ worker' \in {"down", "up", "ready", "broken"}
    BY <1>1 DEF WorkflowTask, StartWorkflow, AfterPolicyCheck, AfterScaleCanary,
         AfterHealthCheck, AfterShiftTraffic, ReceiveApproval, ApprovalTimeout,
         AfterRecordApproval, AfterPromote, AfterCompensation, AfterAlert,
         taskFrame, ClusterTypeOK, clusterVars
  <2> SUFFICES /\ AttemptTypeOK'
               /\ phase' \in [Workflows -> Phases]
               /\ saga' \in [Workflows -> Seq(Compensations)]
               /\ status' \in [Workflows -> Statuses]
               /\ decision' \in [Workflows -> Decisions]
    BY <2>0
  <2> USE DEF Phases, Statuses, Decisions
  <2>1. CASE StartWorkflow(w)
    BY <2>1, ScheduleType DEF StartWorkflow, Proceed, Activities, Forward
  <2>2. CASE AfterPolicyCheck(w)
    BY <2>2, ScheduleType, CloseType
       DEF AfterPolicyCheck, Proceed, Activities, Forward, Closed
  <2>3. CASE AfterScaleCanary(w)
    <3>1. CASE unwind(w, "RolledBack")
      BY <2>3, <3>1, compensateType DEF unwind
    <3>2. CASE /\ register(w, "ScaleDownCanary")
               /\ Proceed(w, "health-bake", "HealthCheck")
               /\ UNCHANGED <<status, decision>>
      BY <3>2, ScheduleType
         DEF register, Proceed, Activities, Forward, Compensations
    <3> QED
      BY <2>3, <3>1, <3>2 DEF AfterScaleCanary
  <2>4. CASE AfterHealthCheck(w)
    BY <2>4, ScheduleType, compensateType
       DEF AfterHealthCheck, unwind, Proceed, Activities, Forward
  <2>5. CASE AfterShiftTraffic(w)
    <3>1. CASE unwind(w, "RolledBack")
      BY <2>5, <3>1, compensateType DEF unwind
    <3>2. CASE /\ register(w, "ShiftTrafficBack")
               /\ decision' = [decision EXCEPT ![w] = "auto"]
               /\ Schedule(w, "RecordApproval")
               /\ UNCHANGED <<phase, status>>
      BY <3>2, ScheduleType DEF register, Activities, Forward, Compensations
    <3>3. CASE /\ register(w, "ShiftTrafficBack")
               /\ phase' = [phase EXCEPT ![w] = "awaiting-approval"]
               /\ pc' = [pc EXCEPT ![w] = "Gate"]
               /\ UNCHANGED <<activity, attemptVars, status, decision>>
      BY <3>3 DEF register, Compensations, AttemptTypeOK, attemptVars, Positions
    <3> QED
      BY <2>5, <3>1, <3>2, <3>3 DEF AfterShiftTraffic
  <2>6. CASE ReceiveApproval(w)
    BY <2>6, ScheduleType DEF ReceiveApproval, Decision, Activities, Forward
  <2>7. CASE ApprovalTimeout(w)
    BY <2>7, ScheduleType DEF ApprovalTimeout, Activities, Forward
  <2>8. CASE AfterRecordApproval(w)
    BY <2>8, ScheduleType, compensateType
       DEF AfterRecordApproval, unwind, Proceed, Activities, Forward
  <2>9. CASE AfterPromote(w)
    BY <2>9, CloseType, compensateType DEF AfterPromote, unwind, Closed
  <2>10. CASE AfterCompensation(w)
    BY <2>10, compensateType DEF AfterCompensation
  <2>11. CASE AfterAlert(w)
    BY <2>11, CloseType DEF AfterAlert, Closed
  <2> QED
    BY <1>1, <2>1, <2>2, <2>3, <2>4, <2>5, <2>6, <2>7, <2>8, <2>9, <2>10, <2>11
       DEF WorkflowTask
<1>2. ASSUME NEW w \in Workflows, Attempt(w)
      PROVE  TypeOK'
  <2> USE DEF attemptFrame, flowVars
  <2>1. CASE StartAttempt(w)
    BY <2>1 DEF StartAttempt, AttemptTypeOK, Pending, ClusterTypeOK, clusterVars
  <2>2. CASE CallSucceeds(w)
    <3>1. NextCall(w) \in CallType /\ input[w] \in CanaryInput
      BY <2>2, CallFacts DEF CallSucceeds, Calling, IsAt, NextCall
    <3>2. ClusterTypeOK'
      BY <2>2, <3>1, PerformType DEF CallSucceeds
    <3>3. AttemptTypeOK'
      BY <2>2 DEF CallSucceeds, AttemptTypeOK
    <3> QED
      BY <2>2, <3>2, <3>3 DEF CallSucceeds
  <2>3. CASE CallFails(w)
    <3>1. AttemptTypeOK'
      <4>1. "rejected" \in Results /\ UNCHANGED pc
        BY <2>3 DEF CallFails, Results
      <4> QED
        BY <2>3, <4>1, FinishType, FailAttemptType DEF CallFails
    <3> QED
      BY <2>3, <3>1 DEF CallFails, ClusterTypeOK, clusterVars
  <2>4. CASE ReplyLost(w)
    <3>1. NextCall(w) \in CallType /\ input[w] \in CanaryInput
      BY <2>4, CallFacts DEF ReplyLost, Calling, IsAt, NextCall
    <3>2. ClusterTypeOK'
      BY <2>4, <3>1, PerformType DEF ReplyLost
    <3>3. AttemptTypeOK'
      BY <2>4, FailAttemptType DEF ReplyLost
    <3> QED
      BY <2>4, <3>2, <3>3 DEF ReplyLost
  <2>5. CASE ActivityReturns(w)
    <3>1. AttemptTypeOK'
      <4>1. {"rejected", "ok", "unhealthy"} \subseteq Results /\ UNCHANGED pc
        BY <2>5 DEF ActivityReturns, Results
      <4>2. FailAttempt(w) \/ \E r \in Results : Finish(w, r)
        BY <2>5, <4>1 DEF ActivityReturns
      <4> QED
        BY <4>1, <4>2, FinishType, FailAttemptType
    <3> QED
      BY <2>5, <3>1 DEF ActivityReturns, ClusterTypeOK, clusterVars
  <2>6. CASE AttemptTimesOut(w)
    <3>1. AttemptTypeOK'
      BY <2>6, FailAttemptType DEF AttemptTimesOut
    <3> QED
      BY <2>6, <3>1 DEF AttemptTimesOut, ClusterTypeOK, clusterVars
  <2>7. CASE CancelActivity(w)
    <3>1. AttemptTypeOK'
      <4>1. "canceled" \in Results /\ UNCHANGED pc
        BY <2>7 DEF CancelActivity, Results
      <4> QED
        BY <2>7, <4>1, FinishType DEF CancelActivity
    <3>2. zombie' \in [Workflows -> Zombies]
      BY <2>7 DEF CancelActivity, Zombies, AttemptTypeOK
    <3> QED
      BY <2>7, <3>1, <3>2 DEF CancelActivity, ClusterTypeOK, clusterVars
  <2>8. CASE ZombieCall(w)
    <3>1. zombie[w] \in [act : Mutating, call : Nat]
      BY <2>8 DEF ZombieCall, ZombieCalling, Zombies
    <3>2. /\ Calls(zombie[w].act, input[w])[zombie[w].call] \in CallType
          /\ input[w] \in CanaryInput
      <4>1. zombie[w].act \in Activities
        BY <3>1 DEF Mutating, Activities, Forward
      <4> QED
        BY <2>8, <4>1, CallFacts DEF ZombieCall, ZombieCalling
    <3>3. ClusterTypeOK'
      BY <2>8, <3>2, PerformType DEF ZombieCall
    <3>4. zombie' \in [Workflows -> Zombies]
      <4>1. [zombie[w] EXCEPT !.call = @ + 1] \in [act : Mutating, call : Nat]
      BY <3>1, ZombieMoves
    <4>2. zombie' = [zombie EXCEPT ![w] = [zombie[w] EXCEPT !.call = @ + 1]]
      BY <2>8 DEF ZombieCall
    <4> QED
      BY <4>1, <4>2 DEF Zombies
    <3> QED
      BY <2>8, <3>3, <3>4 DEF ZombieCall, zombieFrame, attemptVars, AttemptTypeOK
  <2>9. CASE ZombieStops(w)
    BY <2>9 DEF ZombieStops, Zombies, zombieFrame, attemptVars, AttemptTypeOK,
                ClusterTypeOK, clusterVars
  <2> QED
    BY <1>2, <2>1, <2>2, <2>3, <2>4, <2>5, <2>6, <2>7, <2>8, <2>9 DEF Attempt
<1>3. ASSUME NEW w \in Workflows, Approve(w) PROVE TypeOK'
  BY <1>3 DEF Approve, Signals, flowVars, attemptVars, AttemptTypeOK,
              ClusterTypeOK, clusterVars
<1>4. ASSUME NEW w \in Workflows, Cancel(w) PROVE TypeOK'
  BY <1>4 DEF Cancel, flowVars, attemptVars, AttemptTypeOK, ClusterTypeOK, clusterVars
<1>5. CASE BuildClient
  BY <1>5 DEF BuildClient, workerFrame, flowVars, AttemptTypeOK, ClusterTypeOK, clusterVars
<1>6. CASE Crash
  BY <1>6 DEF Crash, workerFrame, flowVars, AttemptTypeOK, ClusterTypeOK, clusterVars,
              Pending, Zombies
<1>7. CASE Restart
  BY <1>7 DEF Restart, workerFrame, flowVars, AttemptTypeOK, ClusterTypeOK, clusterVars
<1>8. CASE PodChange
  <2>1. ClusterTypeOK'
    <3>1. PICK s \in Services, i \in Images, n \in Nat :
            ready' = [ready EXCEPT ![s][i] = n]
      <4>1. PICK s \in Services : PodReady(s) \/ PodLost(s)
        BY <1>8 DEF PodChange
      <4>2. CASE PodReady(s)
        <5>1. image[canaryName(s)] \in Images
          BY DEF ClusterTypeOK, Deployments, Roles, canaryName
        <5>2. ready' = [ready EXCEPT ![s][image[canaryName(s)]] = @ + 1]
          BY <4>2 DEF PodReady
        <5>3. ready[s][image[canaryName(s)]] + 1 \in Nat
          BY <5>1 DEF ClusterTypeOK
        <5> QED
          BY <5>1, <5>2, <5>3
      <4>3. CASE PodLost(s)
        <5>1. PICK i \in Images : ready[s][i] > 0 /\ ready' = [ready EXCEPT ![s][i] = @ - 1]
          BY <4>3 DEF PodLost
        <5>2. ready[s][i] - 1 \in Nat
          BY <5>1 DEF ClusterTypeOK
        <5> QED
          BY <5>1, <5>2
      <4> QED
        BY <4>1, <4>2, <4>3
    <3>2. UNCHANGED <<image, replicas>>
      BY <1>8 DEF PodChange, PodReady, PodLost
    <3> QED
      BY <3>1, <3>2 DEF ClusterTypeOK
  <2> QED
    BY <1>8, <2>1 DEF PodChange, flowVars, attemptVars, AttemptTypeOK
<1>9. CASE UNCHANGED vars
  BY <1>9 DEF vars, flowVars, attemptVars, AttemptTypeOK, ClusterTypeOK, clusterVars
<1> QED
  BY <1>1, <1>2, <1>3, <1>4, <1>5, <1>6, <1>7, <1>8, <1>9 DEF Next

\* Every reachable state is well typed.
THEOREM TypeCorrect == Spec => []TypeOK
  BY InitType, StepType, PTL DEF Spec

-----------------------------------------------------------------------------
(* What a step can do to the stable Deployments.                           *)

\* A call changes the image or the count of a stable Deployment only if it is a
\* setImage or a scale of the stable of its own service.
LEMMA PerformOnStable ==
  ASSUME TypeOK, NEW in \in CanaryInput, NEW c \in CallType, Perform(c, in),
         NEW s \in Services
  PROVE  /\ \/ image'[stableName(s)] = image[stableName(s)]
            \/ /\ c.op = "setImage" /\ c.role = "stable"
               /\ in.Service = s /\ image'[stableName(s)] = in.ImageTag
         /\ \/ replicas'[stableName(s)] = replicas[stableName(s)]
            \/ /\ c.op = "scale" /\ c.role = "stable"
               /\ in.Service = s /\ replicas'[stableName(s)] = c.n
  BY DEF TypeOK, ClusterTypeOK, Perform, setImage, scaleDeployment, stableName,
         clusterVars, Deployments, Roles, CallType, CanaryInput

\* w promotes: its Promote activity is awaited, or runs on as a zombie.
Promoting(w) == pc[w] = "Promote" \/ zombie[w].act = "Promote"

\* A step changes stable's image only on behalf of an execution that promotes,
\* and its count only on behalf of one that leaves it positive if two replicas or
\* more were asked for.
LEMMA StepOnStable ==
  ASSUME TypeOK, [Next]_vars, NEW s \in Services
  PROVE  /\ \/ image'[stableName(s)] = image[stableName(s)]
            \/ \E w \in Workflows : /\ Promoting(w)
                                    /\ input[w].Service = s
                                    /\ image'[stableName(s)] = input[w].ImageTag
         /\ \/ replicas'[stableName(s)] = replicas[stableName(s)]
            \/ \E w \in Workflows :
                 /\ input[w].Service = s
                 /\ input[w].TargetReplicas > 1 => replicas'[stableName(s)] > 0
<1>1. ASSUME NEW w \in Workflows, NEW a \in Activities,
             NEW k \in DOMAIN Calls(a, input[w]),
             Perform(Calls(a, input[w])[k], input[w]),
             a = "Promote" => Promoting(w)
      PROVE  /\ \/ image'[stableName(s)] = image[stableName(s)]
                \/ /\ Promoting(w)
                   /\ input[w].Service = s
                   /\ image'[stableName(s)] = input[w].ImageTag
             /\ \/ replicas'[stableName(s)] = replicas[stableName(s)]
                \/ /\ input[w].Service = s
                   /\ input[w].TargetReplicas > 1 => replicas'[stableName(s)] > 0
  <2> DEFINE c == Calls(a, input[w])[k]
  <2>1. input[w] \in CanaryInput
    BY CanaryAssumption DEF TypeOK
  <2>2. /\ c \in CallType
        /\ c.op = "setImage" /\ c.role = "stable" => a = "Promote"
        /\ /\ c.op = "scale" /\ c.role = "stable" /\ input[w].TargetReplicas > 1
           => c.n > 0
    BY <2>1, CallFacts
  <2> HIDE DEF c
  <2>3. Perform(c, input[w])
    BY <1>1 DEF c
  <2> QED
    BY <1>1, <2>1, <2>2, <2>3, PerformOnStable
<1>2. CASE UNCHANGED <<image, replicas>>
  BY <1>2
<1>3. ASSUME NEW w \in Workflows, CallSucceeds(w) \/ ReplyLost(w)
      PROVE  \E a \in Activities : \E k \in DOMAIN Calls(a, input[w]) :
               /\ Perform(Calls(a, input[w])[k], input[w])
               /\ a = "Promote" => Promoting(w)
  <2>1. Calling(w) /\ Perform(NextCall(w), input[w])
    BY <1>3 DEF CallSucceeds, ReplyLost
  <2> QED
    BY <2>1 DEF Calling, NextCall, IsAt, Promoting
<1>4. ASSUME NEW w \in Workflows, ZombieCall(w)
      PROVE  \E a \in Activities : \E k \in DOMAIN Calls(a, input[w]) :
               /\ Perform(Calls(a, input[w])[k], input[w])
               /\ a = "Promote" => Promoting(w)
  <2>1. zombie[w].act \in Activities
    BY <1>4 DEF ZombieCall, ZombieCalling, TypeOK, Zombies, Mutating, Activities, Forward
  <2> QED
    BY <1>4, <2>1 DEF ZombieCall, ZombieCalling, Promoting
<1>5. ASSUME NEW w \in Workflows, StartWorkflow(w) \/ WorkflowTask(w)
      PROVE  UNCHANGED <<image, replicas>>
  BY <1>5 DEF StartWorkflow, WorkflowTask, AfterPolicyCheck, AfterScaleCanary,
       AfterHealthCheck, AfterShiftTraffic, ReceiveApproval, ApprovalTimeout,
       AfterRecordApproval, AfterPromote, AfterCompensation, AfterAlert,
       taskFrame, clusterVars
<1>6. ASSUME NEW w \in Workflows,
             \/ StartAttempt(w) \/ CallFails(w) \/ ActivityReturns(w)
             \/ AttemptTimesOut(w) \/ CancelActivity(w) \/ ZombieStops(w)
             \/ Approve(w) \/ Cancel(w)
      PROVE  UNCHANGED <<image, replicas>>
  BY <1>6 DEF StartAttempt, CallFails, ActivityReturns, AttemptTimesOut,
       CancelActivity, ZombieStops, Approve, Cancel, clusterVars
<1>7. CASE BuildClient \/ Crash \/ Restart \/ PodChange \/ UNCHANGED vars
  BY <1>2, <1>7 DEF BuildClient, Crash, Restart, PodChange, PodReady, PodLost,
       workerFrame, clusterVars, vars
<1> QED
  BY <1>1, <1>2, <1>3, <1>4, <1>5, <1>6, <1>7 DEF Next, Attempt

-----------------------------------------------------------------------------
(* StableNeverDrained is inductive on top of the types.                    *)

\* No service loses its last stable replica: see StableNeverDrained.
THEOREM StableServes == Spec => []StableNeverDrained
<1>1. Init => StableNeverDrained
  BY DEF Init, ClusterInit, StableNeverDrained, stableName, Deployments, Roles
<1>2. TypeOK /\ TypeOK' /\ StableNeverDrained /\ [Next]_vars => StableNeverDrained'
  <2> SUFFICES ASSUME TypeOK, StableNeverDrained, [Next]_vars, NEW s \in Services,
                      BaseReplicas > 0,
                      \A w \in Workflows :
                        input'[w].Service = s => input'[w].TargetReplicas > 1
               PROVE  replicas'[stableName(s)] > 0
    BY DEF StableNeverDrained, stableName
  <2>1. UNCHANGED input
    BY DEF Next, Attempt, StartWorkflow, WorkflowTask, AfterPolicyCheck,
       AfterScaleCanary, AfterHealthCheck, AfterShiftTraffic, ReceiveApproval,
       ApprovalTimeout, AfterRecordApproval, AfterPromote, AfterCompensation,
       AfterAlert, taskFrame, StartAttempt, CallSucceeds, CallFails, ReplyLost,
       ActivityReturns, AttemptTimesOut, CancelActivity, ZombieCall, ZombieStops,
       attemptFrame, zombieFrame, Approve, Cancel, BuildClient, Crash, Restart,
       PodChange, workerFrame, vars
  <2> QED
    BY <2>1, StepOnStable DEF StableNeverDrained
<1> QED
  BY <1>1, <1>2, TypeCorrect, PTL DEF Spec

-----------------------------------------------------------------------------
(***************************************************************************)
(* NoPromoteWithoutApproval is not inductive: the step that writes stable's *)
(* image reads neither the verdict of the bake nor the decision.  Where w  *)
(* stands (pc) and what it decided stand for both, which ApprovalOrder     *)
(* says.                                                                   *)
(***************************************************************************)
BeforeDecision == {"Idle", "PolicyCheck", "ScaleCanary", "HealthCheck",
                   "ShiftTraffic", "Gate"}

ApprovalOrderOf(w) ==
  /\ pc[w] \in {"Idle", "PolicyCheck", "ScaleCanary"}
       => activity[w]["HealthCheck"] = "none"
  /\ pc[w] \in {"ShiftTraffic", "Gate"} => activity[w]["HealthCheck"] = "ok"
  /\ pc[w] = "Gate" => ~input[w].AutoPromote
  /\ pc[w] \in BeforeDecision => decision[w] = "none"
  /\ decision[w] = "auto" => input[w].AutoPromote
  /\ decision[w] = "approved" => ~input[w].AutoPromote
  /\ decision[w] \in {"auto", "approved"} => Approved(w)
  /\ Promoting(w) => decision[w] \in {"auto", "approved"}

ApprovalOrder == \A w \in Workflows : ApprovalOrderOf(w)

\* Finish and FailAttempt overwrite the state of the activity w awaits, which
\* is not a bake that has not started or has ended well.
LEMMA EndOfAttempt ==
  ASSUME TypeOK, NEW w \in Workflows, NEW r, activity[w][pc[w]] \in Pending,
         Finish(w, r) \/ FailAttempt(w)
  PROVE  \A v \in Workflows :
           activity[v]["HealthCheck"] \in {"none", "ok"} =>
             activity'[v]["HealthCheck"] = activity[v]["HealthCheck"]
<1>1. PICK x : activity' = [activity EXCEPT ![w][pc[w]] = x]
  BY DEF Finish, FailAttempt
<1> QED
  BY <1>1 DEF TypeOK, AttemptTypeOK, Pending

\* A step that is no workflow task leaves the control state alone, keeps a bake
\* verdict once it is there, only appends signals, and makes no zombie Promote
\* out of nothing.
LEMMA OtherSteps ==
  ASSUME TypeOK, [Next]_vars,
         \A w \in Workflows : ~StartWorkflow(w) /\ ~WorkflowTask(w)
  PROVE  /\ UNCHANGED <<pc, decision, input>>
         /\ \A v \in Workflows :
              /\ activity[v]["HealthCheck"] \in {"none", "ok"} =>
                   activity'[v]["HealthCheck"] = activity[v]["HealthCheck"]
              /\ \/ signals'[v] = signals[v]
                 \/ \E x \in Signals : signals'[v] = Append(signals[v], x)
              /\ zombie'[v].act = "Promote" => Promoting(v)
<1> DEFINE Same == UNCHANGED <<pc, decision, input>>
           Kept == \A v \in Workflows :
                     activity[v]["HealthCheck"] \in {"none", "ok"} =>
                       activity'[v]["HealthCheck"] = activity[v]["HealthCheck"]
           Zombie == \A v \in Workflows : zombie'[v].act = "Promote" => Promoting(v)
<1>1. CASE \E w \in Workflows : Attempt(w)
  <2> PICK w \in Workflows : Attempt(w)
    BY <1>1
  <2>1. Same /\ UNCHANGED signals
    BY DEF Attempt, StartAttempt, CallSucceeds, CallFails, ReplyLost, ActivityReturns,
       AttemptTimesOut, CancelActivity, ZombieCall, ZombieStops, attemptFrame,
       zombieFrame, flowVars
  <2>2. Kept
    <3>1. CASE StartAttempt(w)
      BY <3>1 DEF StartAttempt, IsAt, TypeOK, AttemptTypeOK
    <3>2. CASE CallFails(w) \/ ReplyLost(w) \/ ActivityReturns(w)
               \/ AttemptTimesOut(w) \/ CancelActivity(w)
      <4>1. activity[w][pc[w]] \in Pending
        BY <3>2 DEF CallFails, ReplyLost, ActivityReturns, AttemptTimesOut,
             CancelActivity, Calling, IsAt, Pending
      <4>2. FailAttempt(w) \/ \E r : Finish(w, r)
        BY <3>2 DEF CallFails, ReplyLost, ActivityReturns, AttemptTimesOut,
             CancelActivity
      <4> QED
        BY <4>1, <4>2, EndOfAttempt
    <3>3. CASE CallSucceeds(w) \/ ZombieCall(w) \/ ZombieStops(w)
      BY <3>3 DEF CallSucceeds, ZombieCall, ZombieStops, zombieFrame
    <3> QED
      BY <3>1, <3>2, <3>3 DEF Attempt
  <2>3. Zombie
    <3>1. CASE CancelActivity(w)
      BY <3>1 DEF CancelActivity, TypeOK, Promoting
    <3>2. CASE ZombieCall(w)
      <4>1. zombie[w] \in [act : Mutating, call : Nat]
        BY <3>2 DEF ZombieCall, ZombieCalling, TypeOK, Zombies
      <4>2. zombie' = [zombie EXCEPT ![w] = [zombie[w] EXCEPT !.call = @ + 1]]
        BY <3>2 DEF ZombieCall
      <4> QED
        BY <4>1, <4>2, ZombieMoves DEF Promoting, TypeOK
    <3>3. CASE ZombieStops(w)
      BY <3>3 DEF ZombieStops, TypeOK, Promoting, NoZombie
    <3>4. CASE UNCHANGED zombie
      BY <3>4 DEF Promoting
    <3> QED
      BY <3>1, <3>2, <3>3, <3>4 DEF Attempt, StartAttempt, CallSucceeds, CallFails,
         ReplyLost, ActivityReturns, AttemptTimesOut, attemptFrame
  <2> QED
    BY <2>1, <2>2, <2>3
<1>2. CASE \E w \in Workflows : Approve(w)
  <2> PICK w \in Workflows : Approve(w)
    BY <1>2
  <2>1. \A v \in Workflows : \/ signals'[v] = signals[v]
                            \/ \E x \in Signals : signals'[v] = Append(signals[v], x)
    <3>1. PICK x \in Signals : signals' = [signals EXCEPT ![w] = Append(@, x)]
      BY DEF Approve, Signals
    <3> QED
      BY <3>1 DEF TypeOK
  <2> QED
    BY <2>1 DEF Approve, Promoting, flowVars
<1>3. CASE (\E w \in Workflows : Cancel(w)) \/ BuildClient \/ Restart
           \/ PodChange \/ UNCHANGED vars
  BY <1>3 DEF Cancel, BuildClient, Restart, PodChange, workerFrame, vars, flowVars,
       Promoting
<1>4. CASE Crash
  BY <1>4 DEF Crash, workerFrame, flowVars, TypeOK, AttemptTypeOK, Activities, Forward,
       NoZombie
<1> QED
  BY <1>1, <1>2, <1>3, <1>4 DEF Next

\* A workflow task touches one execution, and neither its signals nor zombies.
LEMMA TaskFrame ==
  ASSUME TypeOK, NEW w \in Workflows, StartWorkflow(w) \/ WorkflowTask(w)
  PROVE  /\ UNCHANGED <<input, signals, zombie>>
         /\ \A v \in Workflows \ {w} : /\ pc'[v] = pc[v]
                                      /\ decision'[v] = decision[v]
                                      /\ activity'[v] = activity[v]
<1>1. UNCHANGED <<input, signals, zombie>>
  BY DEF StartWorkflow, WorkflowTask, AfterPolicyCheck, AfterScaleCanary,
     AfterHealthCheck, AfterShiftTraffic, ReceiveApproval, ApprovalTimeout,
     AfterRecordApproval, AfterPromote, AfterCompensation, AfterAlert, taskFrame
<1>2. ASSUME NEW v \in Workflows \ {w}
      PROVE  pc'[v] = pc[v] /\ activity'[v] = activity[v]
  <2>1. \/ \E a : Schedule(w, a)
        \/ \E how : Close(w, how)
        \/ pc' = [pc EXCEPT ![w] = "Gate"] /\ UNCHANGED activity
    BY DEF StartWorkflow, WorkflowTask, AfterPolicyCheck, AfterScaleCanary,
       AfterHealthCheck, AfterShiftTraffic, ReceiveApproval, ApprovalTimeout,
       AfterRecordApproval, AfterPromote, AfterCompensation, AfterAlert,
       Proceed, unwind, compensate
  <2> QED
    BY <1>2, <2>1 DEF Schedule, Close, TypeOK, AttemptTypeOK
<1>3. ASSUME NEW v \in Workflows \ {w}
      PROVE  decision'[v] = decision[v]
  BY <1>3 DEF StartWorkflow, WorkflowTask, AfterPolicyCheck, AfterScaleCanary,
       AfterHealthCheck, AfterShiftTraffic, ReceiveApproval, ApprovalTimeout,
       AfterRecordApproval, AfterPromote, AfterCompensation, AfterAlert, unwind,
       TypeOK
<1> QED
  BY <1>1, <1>2, <1>3

\* Scheduling an activity moves the execution there and, unless it is the bake,
\* keeps the bake's result.
LEMMA ScheduleControl ==
  ASSUME TypeOK, NEW w \in Workflows, NEW a \in Activities, Schedule(w, a)
  PROVE  /\ pc'[w] = a
         /\ a # "HealthCheck" =>
              activity'[w]["HealthCheck"] = activity[w]["HealthCheck"]
  BY DEF Schedule, TypeOK, AttemptTypeOK

\* Closing an execution leaves every result as it is.
LEMMA CloseControl ==
  ASSUME TypeOK, NEW w \in Workflows, NEW how, Close(w, how)
  PROVE  pc'[w] = how /\ UNCHANGED activity
  BY DEF Close, TypeOK, AttemptTypeOK

\* Unwinding schedules compensations and the alert, no forward activity.
LEMMA compensateControl ==
  ASSUME TypeOK, NEW w \in Workflows, compensate(w)
  PROVE  /\ pc'[w] \in Compensations \cup {"Alert"}
         /\ activity'[w]["HealthCheck"] = activity[w]["HealthCheck"]
<1>1. \E a \in Compensations \cup {"Alert"} : Schedule(w, a)
  <2>1. CASE saga[w] = <<>>
    BY <2>1 DEF compensate
  <2>2. CASE saga[w] # <<>>
    <3>1. saga[w][Len(saga[w])] \in Compensations
      BY <2>2, PopType DEF TypeOK
    <3> QED
      BY <2>2, <3>1 DEF compensate
  <2> QED
    BY <2>1, <2>2
<1> QED
  BY <1>1, ScheduleControl DEF Activities, Compensations

\* A workflow task keeps ApprovalOrder: one case per task.
LEMMA TaskKeepsOrder ==
  ASSUME TypeOK, ApprovalOrder, NEW w \in Workflows,
         StartWorkflow(w) \/ WorkflowTask(w)
  PROVE  ApprovalOrderOf(w)' /\ (Approved(w) => Approved(w)')
<1>1. UNCHANGED <<input, signals, zombie>>
  BY TaskFrame
<1>2. ApprovalOrderOf(w)
  BY DEF ApprovalOrder
<1> USE <1>1, <1>2 DEF ApprovalOrderOf, Approved, Promoting, BeforeDecision
\* Steps after which w neither decides any more nor has a forward activity left.
<1>3. CASE /\ UNCHANGED decision
           /\ pc'[w] \in Compensations \cup Closed \cup {"Alert"}
           /\ activity'[w]["HealthCheck"] = activity[w]["HealthCheck"]
  BY <1>3 DEF Compensations, Closed
<1>4. CASE StartWorkflow(w)
  <2>1. pc'[w] = "PolicyCheck" /\ activity'[w]["HealthCheck"] = activity[w]["HealthCheck"]
    BY <1>4, ScheduleControl DEF StartWorkflow, Proceed, Activities, Forward
  <2> QED
    BY <1>4, <2>1 DEF StartWorkflow
<1>5. CASE AfterPolicyCheck(w)
  <2>1. CASE Proceed(w, "scale-canary", "ScaleCanary")
    <3>1. pc'[w] = "ScaleCanary" /\ activity'[w]["HealthCheck"] = activity[w]["HealthCheck"]
      BY <2>1, ScheduleControl DEF Proceed, Activities, Forward
    <3> QED
      BY <1>5, <3>1 DEF AfterPolicyCheck, Resumes
  <2>2. CASE Proceed(w, "policy-rejected", "Alert")
    BY <1>3, <1>5, <2>2, ScheduleControl DEF AfterPolicyCheck, Proceed, Activities
  <2>3. CASE \E how \in Closed : Close(w, how)
    BY <1>3, <1>5, <2>3, CloseControl DEF AfterPolicyCheck
  <2> QED
    BY <1>5, <2>1, <2>2, <2>3 DEF AfterPolicyCheck, Closed
<1>6. CASE AfterScaleCanary(w)
  <2>1. CASE unwind(w, "RolledBack")
    BY <1>3, <2>1, compensateControl DEF unwind
  <2>2. CASE Proceed(w, "health-bake", "HealthCheck") /\ UNCHANGED decision
               /\ pc[w] = "ScaleCanary"
    <3>1. pc'[w] = "HealthCheck"
      BY <2>2, ScheduleControl DEF Proceed, Activities, Forward
    <3> QED
      BY <2>2, <3>1
  <2> QED
    BY <1>6, <2>1, <2>2 DEF AfterScaleCanary, Resumes
<1>7. CASE AfterHealthCheck(w)
  <2>1. CASE unwind(w, "RolledBack")
    BY <1>3, <2>1, compensateControl DEF unwind
  <2>2. CASE /\ Resumes(w, "HealthCheck", "ok")
             /\ Proceed(w, "shift-traffic", "ShiftTraffic")
             /\ UNCHANGED decision
    <3>1. pc'[w] = "ShiftTraffic" /\ activity'[w]["HealthCheck"] = activity[w]["HealthCheck"]
      BY <2>2, ScheduleControl DEF Proceed, Activities, Forward
    <3> QED
      BY <2>2, <3>1 DEF Resumes
  <2> QED
    BY <1>7, <2>1, <2>2 DEF AfterHealthCheck
<1>8. CASE AfterShiftTraffic(w)
  <2>1. CASE unwind(w, "RolledBack")
    BY <1>3, <2>1, compensateControl DEF unwind
  <2>2. CASE /\ Resumes(w, "ShiftTraffic", "ok")
             /\ input[w].AutoPromote
             /\ decision' = [decision EXCEPT ![w] = "auto"]
             /\ Schedule(w, "RecordApproval")
    <3>1. /\ pc'[w] = "RecordApproval" /\ decision'[w] = "auto"
          /\ activity'[w]["HealthCheck"] = activity[w]["HealthCheck"]
      BY <2>2, ScheduleControl DEF Activities, Forward, TypeOK
    <3> QED
      BY <2>2, <3>1 DEF Resumes
  <2>3. CASE /\ Resumes(w, "ShiftTraffic", "ok")
             /\ ~input[w].AutoPromote
             /\ pc' = [pc EXCEPT ![w] = "Gate"]
             /\ UNCHANGED <<activity, decision>>
    BY <2>3 DEF Resumes, TypeOK, AttemptTypeOK
  <2> QED
    BY <1>8, <2>1, <2>2, <2>3 DEF AfterShiftTraffic
<1>9. CASE ReceiveApproval(w) \/ ApprovalTimeout(w)
  <2>1. /\ pc[w] = "Gate" /\ pc'[w] = "RecordApproval"
        /\ activity'[w]["HealthCheck"] = activity[w]["HealthCheck"]
    BY <1>9, ScheduleControl DEF ReceiveApproval, ApprovalTimeout, Activities, Forward
  <2>2. \/ decision'[w] \in {"rejected", "timeout"}
        \/ /\ decision'[w] = "approved"
           /\ signals[w] # <<>> /\ signals[w][1].approve
    BY <1>9 DEF ReceiveApproval, ApprovalTimeout, Decision, TypeOK
  <2> QED
    BY <2>1, <2>2
<1>10. CASE AfterRecordApproval(w)
  <2>1. CASE \E st : unwind(w, st)
    BY <1>3, <2>1, compensateControl DEF unwind
  <2>2. CASE /\ decision[w] \in {"auto", "approved"}
             /\ Proceed(w, "promote", "Promote")
             /\ UNCHANGED decision
    <3>1. pc'[w] = "Promote" /\ activity'[w]["HealthCheck"] = activity[w]["HealthCheck"]
      BY <2>2, ScheduleControl DEF Proceed, Activities, Forward
    <3> QED
      BY <2>2, <3>1
  <2> QED
    BY <1>10, <2>1, <2>2 DEF AfterRecordApproval
<1>11. CASE AfterPromote(w)
  <2>1. CASE unwind(w, "RolledBack")
    BY <1>3, <2>1, compensateControl DEF unwind
  <2>2. CASE Close(w, "Completed") /\ UNCHANGED decision
    BY <1>3, <2>2, CloseControl DEF Closed
  <2> QED
    BY <1>11, <2>1, <2>2 DEF AfterPromote
<1>12. CASE AfterCompensation(w)
  BY <1>3, <1>12, compensateControl DEF AfterCompensation
<1>13. CASE AfterAlert(w)
  BY <1>3, <1>13, CloseControl DEF AfterAlert, Closed
<1> QED
  BY <1>4, <1>5, <1>6, <1>7, <1>8, <1>9, <1>10, <1>11, <1>12, <1>13 DEF WorkflowTask

\* Every step keeps ApprovalOrder, and an execution once approved stays approved.
LEMMA StepOrder ==
  ASSUME TypeOK, ApprovalOrder, [Next]_vars
  PROVE  ApprovalOrder' /\ \A w \in Workflows : Approved(w) => Approved(w)'
<1>1. ASSUME NEW w \in Workflows, StartWorkflow(w) \/ WorkflowTask(w),
             NEW v \in Workflows
      PROVE  ApprovalOrderOf(v)' /\ (Approved(v) => Approved(v)')
  <2>1. CASE v = w
    BY <1>1, <2>1, TaskKeepsOrder
  <2>2. CASE v # w
    BY <1>1, <2>2, TaskFrame DEF ApprovalOrder, ApprovalOrderOf, Approved, Promoting
  <2> QED
    BY <2>1, <2>2
<1>2. ASSUME \A w \in Workflows : ~StartWorkflow(w) /\ ~WorkflowTask(w),
             NEW v \in Workflows
      PROVE  ApprovalOrderOf(v)' /\ (Approved(v) => Approved(v)')
  <2>1. /\ UNCHANGED <<pc, decision, input>>
        /\ activity[v]["HealthCheck"] \in {"none", "ok"} =>
             activity'[v]["HealthCheck"] = activity[v]["HealthCheck"]
        /\ zombie'[v].act = "Promote" => Promoting(v)
    BY <1>2, OtherSteps
  <2>2. signals[v] # <<>> => signals'[v] # <<>> /\ signals'[v][1] = signals[v][1]
    <3>1. signals[v] \in Seq(Signals)
      BY DEF TypeOK
    <3>2. \/ signals'[v] = signals[v]
          \/ \E x \in Signals : signals'[v] = Append(signals[v], x)
      BY <1>2, OtherSteps
    <3> QED
      BY <3>1, <3>2
  <2>3. Approved(v) => Approved(v)'
    BY <2>1, <2>2 DEF Approved
  <2> QED
    BY <2>1, <2>3 DEF ApprovalOrder, ApprovalOrderOf, Promoting
<1> QED
  BY <1>1, <1>2 DEF ApprovalOrder

\* No image gets onto a stable Deployment without a healthy bake and somebody's
\* decision to promote: see NoPromoteWithoutApproval.
THEOREM PromotionApproved == Spec => []NoPromoteWithoutApproval
<1> DEFINE Inv == ApprovalOrder /\ NoPromoteWithoutApproval
<1>1. Init => Inv
  <2> SUFFICES ASSUME Init PROVE Inv
    OBVIOUS
  <2>1. ApprovalOrder
    BY DEF Init, ApprovalOrder, ApprovalOrderOf, BeforeDecision, Promoting, NoZombie,
           Activities, Forward
  <2>2. NoPromoteWithoutApproval
    BY DEF Init, ClusterInit, NoPromoteWithoutApproval, stableName, Deployments, Roles
  <2> QED
    BY <2>1, <2>2
<1>2. TypeOK /\ Inv /\ [Next]_vars => Inv'
  <2> SUFFICES ASSUME TypeOK, Inv, [Next]_vars PROVE Inv'
    OBVIOUS
  <2>1. /\ ApprovalOrder'
        /\ UNCHANGED input
        /\ \A w \in Workflows : Approved(w) => Approved(w)'
    BY StepOrder, TaskFrame, OtherSteps
  <2>2. ASSUME NEW s \in Services, image'[stableName(s)] # InitialImage
        PROVE  \E w \in Workflows : /\ input'[w].Service = s
                                   /\ input'[w].ImageTag = image'[stableName(s)]
                                   /\ Approved(w)'
    <3>1. CASE image'[stableName(s)] = image[stableName(s)]
      BY <2>1, <2>2, <3>1 DEF NoPromoteWithoutApproval
    <3>2. CASE \E w \in Workflows : /\ Promoting(w)
                                   /\ input[w].Service = s
                                   /\ image'[stableName(s)] = input[w].ImageTag
      BY <2>1, <3>2 DEF ApprovalOrder, ApprovalOrderOf
    <3> QED
      BY <3>1, <3>2, StepOnStable
  <2> QED
    BY <2>1, <2>2 DEF NoPromoteWithoutApproval, stableName
<1> QED
  BY <1>1, <1>2, TypeCorrect, PTL DEF Spec
=============================================================================
