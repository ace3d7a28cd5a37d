-------------------------- MODULE RefinementProofs --------------------------
(***************************************************************************)
(* CanaryDeploy implements DeployContract, step by step: every step of it  *)
(* is one step of one deploy's contract, or none.                          *)
(***************************************************************************)
EXTENDS EffectProofs

\* No two deploys share a service, and what they deploy is not what runs there
\* already, so that a service that is new can be told from one that is old.
Apart ==
  \A w \in Workflows : SoleDeploy(w) /\ input[w].ImageTag # InitialImage

-----------------------------------------------------------------------------
(* Steps of one execution, in the terms of the contract.                   *)

SameStage(w) == Stage(w)' = Stage(w)
SameService(w) == ServiceState(w)' = ServiceState(w)
SameFault(w) == Faulty(w)' = Faulty(w)

\* The contract does not see the step in w.
Unmoved(w) == SameStage(w) /\ SameService(w) /\ SameFault(w)

\* w gets from one stage to the next.
Advances(w) ==
  /\ SameService(w) /\ SameFault(w)
  /\ \/ Stage(w) = "idle" /\ Stage(w)' = "checking"
     \/ Stage(w) = "checking" /\ Stage(w)' = "changing"
     \/ Stage(w) = "checking" /\ Stage(w)' \in {"PolicyRejected", "Failed", "Canceled"}
     \/ /\ Stage(w) = "changing" /\ Stage(w)' = "Promoted"
        /\ ~Faulty(w) /\ ServiceState(w) = "new"
     \/ /\ Stage(w) = "changing" /\ Stage(w)' = "undoing"
        /\ ServiceState(w) # "new" \/ Faulty(w)
     \/ /\ Stage(w) = "undoing" /\ Stage(w)' \in RollbackStatuses
        /\ ServiceState(w) = "old" \/ Faulty(w)

\* A call of w, or a fault, at a stage where the contract allows it.
Acts(w) ==
  /\ SameStage(w)
  /\ \/ /\ Stage(w) = "changing" /\ SameFault(w)
        /\ ServiceState(w) # "new"
     \/ /\ Stage(w) \in {"changing", "undoing"}
        /\ Faulty(w)'
     \/ /\ Stage(w) = "undoing" /\ SameFault(w)
        /\ ServiceState(w) = "mixed" /\ ServiceState(w)' \in {"mixed", "old"}
     \/ /\ Stage(w) \in {"changing", "undoing"} \cup RollbackStatuses /\ SameFault(w)
        /\ Faulty(w)

\* One execution moves and the others do not: that is a step of the contract.
LEMMA OneMoves ==
  ASSUME NEW w \in Workflows, \A v \in Workflows \ {w} : Unmoved(v),
         Unmoved(w) \/ Advances(w) \/ Acts(w)
  PROVE  [Contract!ContractNext]_(Contract!contractVars)
<1> USE DEF Unmoved, SameStage, SameService, SameFault
<1>1. CASE Unmoved(w)
  BY <1>1 DEF Contract!contractVars
<1>2. CASE Advances(w)
  BY <1>2 DEF Advances, Contract!ContractNext, Contract!Begin, Contract!DeployStep, Contract!Admit,
     Contract!Refuse, Contract!Promote, Contract!Undo, Contract!RollBack, Contract!Moves,
     Contract!Serves, Contract!Refusals, Contract!Rollbacks, RollbackStatuses
<1>3. CASE Acts(w)
  <2>1. ServiceState(w)' \in Contract!States
    BY DEF ServiceState, Contract!States
  <2>2. \A sts : ServiceState(w)' \in sts => Contract!Sets(w, sts)
    BY DEF Contract!Sets
  <2>3. [v \in Workflows |-> Stage(v)]' = [v \in Workflows |-> Stage(v)]
    BY <1>3 DEF Acts
  <2>4. SameFault(w) => [v \in Workflows |-> Faulty(v)]' = [v \in Workflows |-> Faulty(v)]
    OBVIOUS
  <2>5. CASE Stage(w) = "changing" /\ SameFault(w) /\ ServiceState(w) # "new"
    BY <2>1, <2>2, <2>3, <2>4, <2>5 DEF Contract!ContractNext, Contract!DeployStep,
       Contract!Change, Contract!Serves
  <2>6. CASE Stage(w) \in {"changing", "undoing"} /\ Faulty(w)'
    <3>1. [v \in Workflows |-> Faulty(v)]' = [[v \in Workflows |-> Faulty(v)] EXCEPT ![w] = TRUE]
      BY <2>6
    <3> QED
      BY <2>1, <2>2, <2>3, <2>6, <3>1 DEF Contract!ContractNext, Contract!DeployStep,
         Contract!Fault
  <2>7. CASE /\ Stage(w) = "undoing" /\ SameFault(w)
             /\ ServiceState(w) = "mixed" /\ ServiceState(w)' \in {"mixed", "old"}
    BY <2>2, <2>3, <2>4, <2>7 DEF Contract!ContractNext, Contract!DeployStep,
       Contract!Revert, Contract!Serves
  <2>8. CASE /\ Stage(w) \in {"changing", "undoing"} \cup RollbackStatuses /\ SameFault(w)
             /\ Faulty(w)
    BY <2>1, <2>2, <2>3, <2>4, <2>8 DEF Contract!ContractNext, Contract!DeployStep,
       Contract!Straggle, Contract!Rollbacks, RollbackStatuses
  <2> QED
    BY <1>3, <2>5, <2>6, <2>7, <2>8 DEF Acts
<1> QED
  BY <1>1, <1>2, <1>3

\* No execution moves: the contract stutters.
LEMMA NoneMoves ==
  ASSUME \A v \in Workflows : Unmoved(v)
  PROVE  [Contract!ContractNext]_(Contract!contractVars)
BY DEF Unmoved, SameStage, SameService, SameFault, Contract!contractVars

-----------------------------------------------------------------------------
(* What the invariants say of a stage and of the service.                  *)

\* Where w stands determines its stage, but for the policy check and the alert.
StageOf(w) ==
  /\ pc[w] = "Idle" => Stage(w) = "idle"
  /\ pc[w] = "PolicyCheck" =>
       Stage(w) = IF activity[w]["PolicyCheck"] = "ok" THEN "changing" ELSE "checking"
  /\ pc[w] \in (Forward \ {"PolicyCheck"}) \cup {"Gate"} => Stage(w) = "changing"
  /\ pc[w] \in Compensations => Stage(w) = "undoing" /\ status[w] \in RollbackStatuses
  /\ pc[w] = "Alert" => \/ Stage(w) = "checking" /\ status[w] = "PolicyRejected"
                        \/ Stage(w) = "undoing" /\ status[w] \in RollbackStatuses
  /\ pc[w] = "Completed" => Stage(w) = status[w]
  /\ pc[w] \in {"Failed", "Canceled"} => Stage(w) = pc[w]
  /\ zombie[w] # NoZombie => Stage(w) \in {"changing", "undoing"} \cup RollbackStatuses

\* A deploy without a fault has its new image on stable only while, or after, it
\* is promoted.
ImageOf(w) ==
  /\ ~Faulty(w) /\ activity[w]["Promote"] = "none"
       => image[stableName(input[w].Service)] = InitialImage
  /\ ~Faulty(w) /\ status[w] \in RollbackStatuses => activity[w]["Promote"] = "none"

\* The stage follows from the control invariants.
LEMMA StageFacts ==
  ASSUME TypeOK, SagaOrder, Gates, History, NEW w \in Workflows
  PROVE  StageOf(w)
<1>1. Path(w) /\ Outcomes(w) /\ Straggling(w) /\ Behind(w) /\ PassedGates(w) /\ NotReached(w)
  BY DEF History, HistoryOf, Gates, SagaOrder, SagaOrderOf
<1>2. status[w] \in {"none", "PolicyRejected", "Promoted"} \cup RollbackStatuses
  BY DEF TypeOK, Statuses, RollbackStatuses
<1> USE DEF StageOf, Stage, Path, RollbackStatuses
<1>3. pc[w] \in Forward \cup {"Idle", "Gate"} => status[w] = "none"
  BY <1>1, <1>2 DEF Forward, Compensations
<1>4. pc[w] \in (Forward \ {"PolicyCheck"}) \cup {"Gate"} => Stage(w) = "changing"
  <2>1. pc[w] \in (Forward \ {"PolicyCheck"}) \cup {"Gate"} => activity[w]["PolicyCheck"] = "ok"
    BY <1>1 DEF PassedGates, Activities, Forward
  <2> QED
    BY <1>3, <2>1 DEF Forward, Closed
<1>5. pc[w] \in Compensations => Stage(w) = "undoing" /\ status[w] \in RollbackStatuses
  BY <1>1, <1>2 DEF Forward, Compensations, Closed
<1>6. pc[w] = "Alert" => \/ Stage(w) = "checking" /\ status[w] = "PolicyRejected"
                         \/ Stage(w) = "undoing" /\ status[w] \in RollbackStatuses
  BY <1>1, <1>2 DEF Forward, Closed
<1>7. ASSUME zombie[w] # NoZombie
      PROVE  Stage(w) \in {"changing", "undoing"} \cup RollbackStatuses
  <2>1. /\ zombie[w].act \in Mutating /\ activity[w][zombie[w].act] = "canceled"
        /\ activity[w]["PolicyCheck"] = "ok"
    BY <1>1, <1>7 DEF Straggling, PassedGates
  <2>2. pc[w] \notin {"Idle", "Failed", "Canceled"}
    BY <2>1, <1>1 DEF PassedGates, Behind
  <2>3. status[w] \notin {"PolicyRejected", "Promoted"}
    BY <1>1, <2>1 DEF Mutating
  <2> QED
    BY <1>1, <1>2, <2>1, <2>2, <2>3 DEF Forward, Closed
<1> QED
  BY <1>3, <1>4, <1>5, <1>6, <1>7 DEF Closed, Forward

\* And what stable runs from the invariant on the cluster.
LEMMA ImageFacts ==
  ASSUME TypeOK, History, Effects, NEW w \in Workflows, SoleDeploy(w)
  PROVE  ImageOf(w)
<1>1. ~Faulty(w) /\ activity[w]["Promote"] = "none"
        => image[stableName(input[w].Service)] = InitialImage
  BY DEF Effects, Settled
<1>2. ASSUME ~Faulty(w), status[w] \in RollbackStatuses
      PROVE  activity[w]["Promote"] = "none"
  <2>1. Calls("Promote", input[w]) # <<>>
    BY DEF Calls, Promote
  <2>2. activity[w]["Promote"] \notin Pending /\ activity[w]["Promote"] # "ok"
    BY <1>2 DEF History, HistoryOf, Outcomes, Path, Activities, Forward, Compensations
  <2> QED
    BY <1>2, <2>1, <2>2 DEF History, HistoryOf, Outcomes, Faulty, Mutating
<1> QED
  BY <1>1, <1>2 DEF ImageOf

\* The invariants the refinement rests on, and what they say of stage and image.
Known ==
  /\ TypeOK /\ SagaOrder /\ Gates /\ History /\ Effects /\ Apart
  /\ \A w \in Workflows : StageOf(w) /\ ImageOf(w)

-----------------------------------------------------------------------------
(* Workflow tasks.                                                         *)

\* What a deploy without a fault has, told to promote or done with it.
LEMMA ServiceFacts ==
  ASSUME Known, NEW w \in Workflows, ~Faulty(w)
  PROVE  /\ activity[w]["Promote"] = "none" => ServiceState(w) # "new"
         /\ activity[w]["Promote"] = "ok" => ServiceState(w) = "new"
         /\ pc[w] \in {"Alert", "Completed"} /\ status[w] \in RollbackStatuses
              => ServiceState(w) = "old"
<1>1. input[w].ImageTag # InitialImage /\ SoleDeploy(w)
  BY DEF Known, Apart
<1>2. activity[w]["Promote"] = "none" => ServiceState(w) # "new"
  BY <1>1 DEF Known, ImageOf, ServiceState
<1>3. activity[w]["Promote"] = "ok" => ServiceState(w) = "new"
  BY <1>1, PromotedServes DEF Known, ServiceState
<1>4. pc[w] \in {"Alert", "Completed"} /\ status[w] \in RollbackStatuses
        => ServiceState(w) = "old"
  BY <1>1, UnwoundServes DEF Known, ServiceState, LeftOld
<1> QED
  BY <1>2, <1>3, <1>4

\* A turn makes w faulty only if it schedules a forward step.
LEMMA TurnFault ==
  ASSUME Known, [Next]_vars, NEW w \in Workflows, NEW a, Turn(w, a),
         a \notin Mutating
  PROVE  SameFault(w)
<1>1. Faulty(w) => Faulty(w)'
  BY FaultyStays DEF Known
<1>2. ASSUME NEW b \in Mutating
      PROVE  activity'[w][b] = activity[w][b]
  BY DEF Turn, Mutating, Activities, Forward
<1>3. ASSUME NEW c \in Compensations, activity'[w][c] = "error"
      PROVE  activity[w][c] = "error"
  BY <1>3 DEF Turn, Activities
<1>4. Faulty(w)' => Faulty(w)
  BY <1>2, <1>3, InputStays DEF Faulty, Known
<1> QED
  BY <1>1, <1>4 DEF SameFault, Faulty

\* The service is as it was if its Deployments are.
LEMMA KeptService ==
  ASSUME Known, [Next]_vars, NEW w \in Workflows, Kept(w)
  PROVE  SameService(w)
<1>1. UNCHANGED input
  BY InputStays DEF Known
<1> QED
  BY <1>1 DEF SameService, ServiceState, Kept, Roles, stableName, canaryName

\* A workflow task is at most one step of the contract of its execution.
LEMMA TaskStep ==
  ASSUME Known, Known', [Next]_vars, NEW w \in Workflows, StartWorkflow(w) \/ WorkflowTask(w)
  PROVE  Unmoved(w) \/ Advances(w) \/ Acts(w)
<1>1. PICK a : Turn(w, a)
  BY TaskTurns DEF Known
<1>2. SameService(w)
  BY TaskRest, KeptService DEF Kept
<1>3. /\ StageOf(w) /\ StageOf(w)' /\ pc'[w] = a
      /\ HistoryOf(w)
      /\ Faulty(w) => Faulty(w)'
  BY <1>1, FaultyStays DEF Known, Turn, History
<1> USE DEF At
<1>4. CASE GoesOn(w, a) /\ pc[w] = "Idle"
  <2>1. a = "PolicyCheck" /\ Stage(w) = "idle"
    BY <1>3, <1>4 DEF GoesOn, StageOf, Activities, Forward
  <2>2. activity'[w]["PolicyCheck"] # "ok"
    BY <1>1, <2>1 DEF Turn, Activities, Forward
  <2>3. Stage(w)' = "checking"
    BY <1>3, <2>1, <2>2 DEF StageOf
  <2> QED
    BY <1>1, <1>2, <2>1, <2>3, TurnFault DEF Advances, Mutating
<1>5. CASE GoesOn(w, a) /\ pc[w] # "Idle"
  <2>1. Stage(w) = "changing" /\ Stage(w)' = "changing"
    BY <1>3, <1>5 DEF GoesOn, StageOf, Forward
  <2>2. SameFault(w) \/ Faulty(w)'
    BY <1>3 DEF SameFault, Faulty
  <2> QED
    BY <1>2, <2>1, <2>2 DEF Unmoved, Acts, SameStage
<1>6. CASE Leaves(w, a, status'[w])
  <2>1. SameFault(w)
    BY <1>1, <1>6, TurnFault DEF Leaves, Mutating
  <2>2. CASE At(w, "PolicyCheck", {"rejected"}) /\ a = "Alert" /\ status'[w] = "PolicyRejected"
    BY <1>2, <1>3, <2>1, <2>2 DEF StageOf, Unmoved, SameStage, RollbackStatuses
  <2>3. CASE At(w, "PolicyCheck", {"error", "canceled"}) /\ a \in {"Failed", "Canceled"}
    BY <1>2, <1>3, <2>1, <2>3 DEF StageOf, Advances
  <2>4. CASE At(w, "Promote", {"ok"}) /\ a = "Completed" /\ status'[w] = "Promoted"
    <3>1. Stage(w) = "changing" /\ Stage(w)' = "Promoted"
      BY <1>3, <2>4 DEF StageOf, Forward
    <3>2. ~Faulty(w)'
      <4>1. Path(w)'
        BY DEF Known, History, HistoryOf
      <4> QED
        BY <2>4, <4>1 DEF Path, Faulty
    <3>3. ~Faulty(w)
      BY <2>1, <3>2 DEF SameFault
    <3> QED
      BY <1>2, <2>1, <2>4, <3>1, <3>3, ServiceFacts DEF Advances
  <2>5. CASE At(w, "Alert", Results) /\ a = "Completed" /\ status'[w] = status[w]
    <3>1. CASE status[w] = "PolicyRejected"
      BY <1>2, <1>3, <2>1, <2>5, <3>1 DEF StageOf, Advances, RollbackStatuses
    <3>2. CASE status[w] \in RollbackStatuses
      <4>1. Stage(w) = "undoing" /\ Stage(w)' \in RollbackStatuses
        BY <1>3, <2>5, <3>2 DEF StageOf, RollbackStatuses
      <4> QED
        BY <1>2, <2>1, <2>5, <3>2, <4>1, ServiceFacts DEF Advances
    <3> QED
      BY <1>3, <2>5, <3>1, <3>2 DEF StageOf
  <2> QED
    BY <1>6, <2>2, <2>3, <2>4, <2>5 DEF Leaves
<1>7. Pops(w, a) => a \in {"Alert"} \cup Compensations /\ a \notin Mutating
  BY DEF Pops, Compensations, Canary, Traffic, Mutating
<1>8. CASE GivesUp(w) /\ Pops(w, a) /\ status'[w] \in RollbackStatuses
  <2>1. Stage(w) = "changing" /\ Stage(w)' = "undoing"
    BY <1>3, <1>7, <1>8 DEF StageOf, GivesUp, Forward, Mutating, RollbackStatuses
  <2>2. Faulty(w) \/ activity[w]["Promote"] = "none"
    <3>1. CASE At(w, "Promote", {"error", "canceled"})
      <4>1. Calls("Promote", input[w]) # <<>>
        BY DEF Calls, Promote
      <4> QED
        BY <3>1, <4>1 DEF Faulty, Mutating
    <3>2. CASE pc[w] # "Promote"
      BY <1>3, <1>8, <3>2 DEF HistoryOf, Behind, GivesUp, Mutating, Compensations, Closed
    <3> QED
      BY <1>8, <3>1, <3>2 DEF GivesUp, Mutating
  <2> QED
    BY <1>1, <1>2, <1>7, <1>8, <2>1, <2>2, TurnFault, ServiceFacts DEF Advances
<1>9. CASE /\ \E c \in Compensations : At(w, c, Results)
           /\ Pops(w, a) /\ status'[w] = status[w]
  <2>1. Stage(w) = "undoing" /\ status[w] \in RollbackStatuses
    BY <1>3, <1>9 DEF StageOf
  <2>2. Stage(w)' = "undoing"
    BY <1>3, <1>7, <1>9, <2>1 DEF StageOf, RollbackStatuses
  <2> QED
    BY <1>1, <1>2, <1>7, <1>9, <2>1, <2>2, TurnFault DEF Unmoved, SameStage
<1> QED
  BY <1>1, <1>4, <1>5, <1>6, <1>8, <1>9 DEF Turn

-----------------------------------------------------------------------------
(* The other steps.                                                        *)

\* A call of a deploy without a fault is a change where the service is not new
\* yet, or one back to the old service.
LEMMA CallStep ==
  ASSUME Known, Known', [Next]_vars, NEW w \in Workflows, CallSucceeds(w) \/ ReplyLost(w),
         SameStage(w), SameFault(w), ~Faulty(w)
  PROVE  Unmoved(w) \/ Acts(w)
<1> DEFINE a == pc[w]
           c == NextCall(w)
           s == input[w].Service
           stable == <<s, "stable">>
           canary == <<s, "canary">>
<1>1. /\ a \in Activities /\ activity[w][a] = "running"
      /\ call[w] \in DOMAIN Calls(a, input[w]) /\ c = Calls(a, input[w])[call[w]]
      /\ input[w] \in CanaryInput /\ Perform(c, input[w]) /\ UNCHANGED <<pc, input, status>>
  BY OwnCall DEF Known
<1>2. /\ image'[stable] # image[stable] =>
           c.op = "setImage" /\ c.role = "stable" /\ image'[stable] = input[w].ImageTag
      /\ replicas'[stable] # replicas[stable] =>
           c.op = "scale" /\ c.role = "stable" /\ replicas'[stable] = c.n
      /\ replicas'[canary] # replicas[canary] =>
           c.op = "scale" /\ c.role = "canary" /\ replicas'[canary] = c.n
      /\ c.op \in {"setImage", "scale"} => a \in Writers
  <2> HIDE DEF c
  <2>1. \A r \in Roles :
          LET d == <<s, r>>
          IN  /\ image'[d] # image[d] => /\ c.op = "setImage" /\ c.role = r
                                         /\ image'[d] = input[w].ImageTag
              /\ replicas'[d] # replicas[d] => /\ c.op = "scale" /\ c.role = r
                                               /\ replicas'[d] = c.n
              /\ c.op \in {"setImage", "scale"} => a \in Writers
    BY <1>1, OwnWrite DEF Known
  <2> QED
    BY <2>1 DEF Roles
<1>3. StageOf(w) /\ HistoryOf(w) /\ ImageOf(w) /\ ImageOf(w)' /\ SoleDeploy(w)
      /\ input[w].ImageTag # InitialImage
  BY DEF Known, History, Apart
<1>4. CASE a \notin Writers
  <2>1. SameService(w)
    BY <1>1, <1>2, <1>4 DEF SameService, ServiceState, stableName, canaryName
  <2> QED
    BY <2>1 DEF Unmoved
<1>5. CASE a \in Mutating /\ ServiceState(w) # "new"
  BY <1>3, <1>5 DEF StageOf, Mutating, Forward, Acts
<1>6. CASE a \in Mutating /\ ServiceState(w) = "new"
  <2>1. a = "Promote"
    <3>1. activity[w]["Promote"] # "none"
      BY <1>6, ServiceFacts
    <3> QED
      BY <1>3, <1>6, <3>1 DEF HistoryOf, Behind, Mutating, Compensations, Closed
  <2>2. /\ c.op = "scale" /\ c.role = "stable" => c.n = input[w].TargetReplicas
        /\ c.op = "scale" /\ c.role = "canary" => c.n = 0
    BY <1>1, <2>1 DEF Calls, Promote, SetImage, Scale, Call
  <2>3. /\ image[stable] = input[w].ImageTag /\ replicas[stable] = input[w].TargetReplicas
        /\ replicas[canary] = 0
    BY <1>6 DEF ServiceState, stableName, canaryName
  <2>4. /\ image'[stable] = input[w].ImageTag /\ replicas'[stable] = input[w].TargetReplicas
        /\ replicas'[canary] = 0
    BY <1>2, <2>2, <2>3
  <2>5. SameService(w)
    BY <1>1, <1>3, <1>6, <2>4 DEF SameService, ServiceState, stableName, canaryName
  <2> QED
    BY <2>5 DEF Unmoved
<1>7. CASE a \in Compensations
  <2>1. Stage(w) = "undoing" /\ status[w] \in RollbackStatuses
    BY <1>3, <1>7 DEF StageOf
  <2>2. image[stable] = InitialImage /\ image'[stable] = InitialImage
    <3>1. ~Faulty(w)'
      BY DEF SameFault
    <3> QED
      BY <1>1, <1>3, <2>1, <3>1 DEF ImageOf, stableName
  <2>3. ServiceState(w) # "new" /\ ServiceState(w)' \in {"old", "mixed"}
    BY <1>1, <1>3, <2>2 DEF ServiceState, stableName
  <2>4. ServiceState(w) \in {"old", "mixed"}
    BY <2>3 DEF ServiceState
  <2>5. CASE ServiceState(w) = "mixed"
    BY <2>1, <2>3, <2>5 DEF Acts
  <2>6. CASE ServiceState(w) = "old"
    <3>1. /\ c.op = "scale" /\ c.role = "stable" => c.n = AtLeastOne(input[w].TargetReplicas)
          /\ c.op = "scale" /\ c.role = "canary" => c.n = 0
      <4>1. CASE a = "ScaleDownCanary"
        BY <1>1, <4>1 DEF Calls, ScaleDownCanary, Scale, Call
      <4>2. CASE a = "ShiftTrafficBack"
        BY <1>1, <4>2 DEF Calls, ShiftTrafficBack, Scale, Call
      <4> QED
        BY <1>7, <4>1, <4>2 DEF Compensations
    <3>2. /\ replicas[canary] = 0
          /\ replicas[stable] \in {BaseReplicas, AtLeastOne(input[w].TargetReplicas)}
      BY <2>6 DEF ServiceState, stableName, canaryName
    <3>3. /\ replicas'[canary] = 0
          /\ replicas'[stable] \in {BaseReplicas, AtLeastOne(input[w].TargetReplicas)}
      BY <1>2, <3>1, <3>2
    <3>4. SameService(w)
      BY <1>1, <2>2, <2>6, <3>3 DEF SameService, ServiceState, stableName, canaryName
    <3> QED
      BY <3>4 DEF Unmoved
  <2> QED
    BY <2>4, <2>5, <2>6
<1> QED
  BY <1>4, <1>5, <1>6, <1>7 DEF Writers

\* Where the service of w is changed, w awaits an activity that writes or a
\* cancelled one of it goes on, and its stage is one where it may.
LEMMA ServiceChanges ==
  ASSUME Known, [Next]_vars, NEW w \in Workflows, ~SameService(w)
  PROVE  /\ pc[w] # "PolicyCheck"
         /\ Stage(w) \in {"changing", "undoing"} \cup RollbackStatuses
<1>1. SoleDeploy(w) /\ ~Kept(w)
  BY KeptService DEF Known, Apart
<1>2. PICK a \in Writers : Executing(w, a)
  BY <1>1, SoleWriter DEF Known, Kept
<1>3. StageOf(w) /\ HistoryOf(w) /\ SagaOrderOf(w)
  BY DEF Known, History, SagaOrder
<1>4. CASE pc[w] = a
  BY <1>2, <1>3, <1>4 DEF StageOf, Writers, Mutating, Compensations, Forward
<1>5. CASE zombie[w].act = a
  <2>1. zombie[w] # NoZombie
    BY <1>2, <1>5 DEF NoZombie, Writers, Mutating, Compensations
  <2>2. zombie[w].act \in Mutating /\ activity[w][zombie[w].act] = "canceled"
    BY <1>3, <2>1 DEF HistoryOf, Straggling
  <2>3. pc[w] # "PolicyCheck"
    BY <1>3, <2>2 DEF SagaOrderOf, NotReached, HistoryOf, Behind, Mutating, Compensations, Closed
  <2> QED
    BY <1>3, <2>1, <2>3 DEF StageOf
<1> QED
  BY <1>2, <1>4, <1>5 DEF Executing

\* A step that is no workflow task is at most one step of a deploy's contract.
LEMMA OtherStep ==
  ASSUME Known, Known', [Next]_vars,
         \A v \in Workflows : ~StartWorkflow(v) /\ ~WorkflowTask(v),
         NEW w \in Workflows
  PROVE  Unmoved(w) \/ Advances(w) \/ Acts(w)
<1>1. /\ UNCHANGED <<pc, status, input>>
      /\ \A a \in Activities : activity'[w][a] # activity[w][a] =>
           /\ activity[w][a] \in Pending /\ pc[w] = a
           /\ activity'[w][a] \in Pending \cup Results
  <2>1. Outcomes(w) /\ TypeOK
    BY DEF Known, History, HistoryOf
  <2> QED
    BY <2>1, ActivitySteps, InputStays DEF Outcomes
<1>2. StageOf(w) /\ SoleDeploy(w) /\ "PolicyCheck" \in Activities
      /\ Mutating \cup Compensations \subseteq Activities
  BY DEF Known, Apart, Activities, Forward, Mutating
<1>3. Faulty(w) => Faulty(w)'
  BY FaultyStays DEF Known
<1>4. CASE pc[w] = "PolicyCheck"
  <2>1. SameFault(w)
    BY <1>1, <1>2, <1>4 DEF SameFault, Faulty, Mutating, Compensations
  <2>2. SameService(w)
    BY <1>4, ServiceChanges
  <2>3. StageOf(w)' /\ pc'[w] = "PolicyCheck"
    BY <1>1, <1>4 DEF Known
  <2>4. activity[w]["PolicyCheck"] = "ok" => activity'[w]["PolicyCheck"] = "ok"
    BY <1>1, <1>2 DEF Pending
  <2> QED
    BY <1>2, <1>4, <2>1, <2>2, <2>3, <2>4 DEF StageOf, Unmoved, Advances, SameStage
<1>5. CASE pc[w] # "PolicyCheck"
  <2>1. SameStage(w)
    BY <1>1, <1>2, <1>5 DEF SameStage, Stage
  <2>2. CASE ~SameFault(w)
    <3>1. Faulty(w)' /\ ~Faulty(w)
      BY <1>3, <2>2 DEF SameFault, Faulty
    <3>2. pc[w] \in Mutating \cup Compensations
      BY <1>1, <1>2, <3>1 DEF Faulty
    <3>3. Stage(w) \in {"changing", "undoing"}
      BY <1>2, <3>2 DEF StageOf, Mutating, Forward
    <3> QED
      BY <2>1, <3>1, <3>3 DEF Acts
  <2>3. CASE SameFault(w) /\ Faulty(w)
    BY <2>1, <2>3, ServiceChanges DEF Unmoved, Acts
  <2>4. CASE SameFault(w) /\ ~Faulty(w)
    <3>1. CASE Kept(w)
      BY <2>1, <2>4, <3>1, KeptService DEF Unmoved
    <3>2. CASE CallSucceeds(w) \/ ReplyLost(w)
      BY <2>1, <2>4, <3>2, CallStep
    <3> QED
      BY <1>2, <2>4, <3>1, <3>2, ServiceStep, NoStraggler DEF Known
  <2> QED
    BY <2>2, <2>3, <2>4
<1> QED
  BY <1>4, <1>5

-----------------------------------------------------------------------------
(* The other executions.                                                   *)

\* An execution whose activities and Deployments are as they were does not move.
LEMMA Bystander ==
  ASSUME Known, [Next]_vars, NEW v \in Workflows, Kept(v),
         pc'[v] = pc[v], status'[v] = status[v],
         \A a \in Activities : activity'[v][a] # activity[v][a] =>
            activity[v][a] \in Pending /\ activity'[v][a] \in Pending
  PROVE  Unmoved(v)
<1>1. UNCHANGED input
  BY InputStays DEF Known
<1>2. \A a \in Activities, r \in Results : activity'[v][a] = r <=> activity[v][a] = r
  BY DEF Pending, Results
<1>3. {"PolicyCheck"} \cup Mutating \cup Compensations \subseteq Activities
      /\ {"ok", "error", "canceled"} \subseteq Results
  BY DEF Activities, Forward, Mutating, Results
<1>4. SameStage(v)
  BY <1>2, <1>3 DEF SameStage, Stage
<1>5. SameFault(v)
  <2>1. Faulty(v)' <=> Faulty(v)
    BY <1>1, <1>2, <1>3 DEF Faulty
  <2> QED
    BY <2>1 DEF SameFault, Faulty
<1> QED
  BY <1>4, <1>5, KeptService DEF Unmoved

\* An attempt of w leaves the activities and the services of others alone.
LEMMA AttemptFrame ==
  ASSUME Known, [Next]_vars, NEW w \in Workflows, Attempt(w), NEW v \in Workflows \ {w}
  PROVE  activity'[v] = activity[v] /\ Kept(v)
<1>1. \/ \E r : activity' = [activity EXCEPT ![w][pc[w]] = r]
      \/ UNCHANGED activity
  <2>1. FailAttempt(w) => \E r : activity' = [activity EXCEPT ![w][pc[w]] = r]
    BY FailedAttempt DEF Known
  <2>2. ASSUME NEW r, Finish(w, r)
        PROVE  activity' = [activity EXCEPT ![w][pc[w]] = r]
    BY <2>2 DEF Finish
  <2>3. \/ FailAttempt(w) \/ (\E r : Finish(w, r)) \/ UNCHANGED activity
        \/ activity' = [activity EXCEPT ![w][pc[w]] = "running"]
    BY DEF Attempt, StartAttempt, CallSucceeds, CallFails, ReplyLost, ActivityReturns,
       AttemptTimesOut, CancelActivity, ZombieCall, ZombieStops, zombieFrame
  <2> QED
    BY <2>1, <2>2, <2>3
<1>2. activity'[v] = activity[v]
  BY <1>1 DEF Known, TypeOK, AttemptTypeOK
<1>3. CASE CallSucceeds(w) \/ ReplyLost(w) \/ ZombieCall(w)
  BY <1>2, <1>3, ForeignCall DEF Known, Apart
<1>4. CASE ~(CallSucceeds(w) \/ ReplyLost(w) \/ ZombieCall(w))
  <2>1. UNCHANGED <<image, replicas>>
    BY <1>4 DEF Attempt, StartAttempt, CallFails, ActivityReturns, AttemptTimesOut,
       CancelActivity, ZombieStops, clusterVars
  <2> QED
    BY <1>2, <2>1 DEF Kept
<1> QED
  BY <1>3, <1>4

-----------------------------------------------------------------------------
(* The refinement.                                                         *)

\* Every step is a step of the contract of one deploy, or none.
LEMMA StepImplements ==
  ASSUME Known, Known', [Next]_vars
  PROVE  [Contract!ContractNext]_(Contract!contractVars)
<1>1. TypeOK
  BY DEF Known
<1>2. ASSUME NEW w \in Workflows, StartWorkflow(w) \/ WorkflowTask(w)
      PROVE  [Contract!ContractNext]_(Contract!contractVars)
  <2>1. ASSUME NEW v \in Workflows \ {w} PROVE Unmoved(v)
    <3>1. pc'[v] = pc[v] /\ activity'[v] = activity[v] /\ status'[v] = status[v]
      BY <1>1, <1>2, TaskFrame, SagaFrame
    <3>2. Kept(v)
      BY <1>2, TaskRest DEF Kept
    <3> QED
      BY <3>1, <3>2, Bystander
  <2>2. Unmoved(w) \/ Advances(w) \/ Acts(w)
    BY <1>2, TaskStep
  <2> QED
    BY <2>1, <2>2, OneMoves
<1>3. CASE \A w \in Workflows : ~StartWorkflow(w) /\ ~WorkflowTask(w)
  <2>1. UNCHANGED <<pc, status>>
    BY <1>1, <1>3, ActivitySteps
  <2>2. ASSUME NEW w \in Workflows, Attempt(w)
        PROVE  [Contract!ContractNext]_(Contract!contractVars)
    <3>1. ASSUME NEW v \in Workflows \ {w} PROVE Unmoved(v)
      BY <2>1, <2>2, AttemptFrame, Bystander
    <3>2. Unmoved(w) \/ Advances(w) \/ Acts(w)
      BY <1>3, OtherStep
    <3> QED
      BY <3>1, <3>2, OneMoves
  <2>3. ASSUME UNCHANGED <<image, replicas>>,
               \A v \in Workflows, a \in Activities : activity'[v][a] # activity[v][a] =>
                  activity[v][a] \in Pending /\ activity'[v][a] \in Pending
        PROVE  [Contract!ContractNext]_(Contract!contractVars)
    <3>1. ASSUME NEW v \in Workflows PROVE Unmoved(v)
      BY <2>1, <2>3, Bystander DEF Kept
    <3> QED
      BY <3>1, NoneMoves
  <2>4. CASE Crash
    BY <1>1, <2>3, <2>4 DEF Crash, workerFrame, clusterVars, Pending, TypeOK, AttemptTypeOK
  <2>5. CASE (\E w \in Workflows : Approve(w) \/ Cancel(w)) \/ BuildClient \/ Restart
             \/ PodChange \/ UNCHANGED vars
    <3>1. UNCHANGED <<image, replicas, activity>>
      BY <2>5 DEF Approve, Cancel, BuildClient, Restart, PodChange, PodReady, PodLost,
         workerFrame, clusterVars, vars
    <3> QED
      BY <2>3, <3>1
  <2> QED
    BY <1>3, <2>2, <2>4, <2>5 DEF Next
<1> QED
  BY <1>2, <1>3

\* The invariants hold of deploys that are apart.
LEMMA KnownInductive == Spec /\ Apart => []Known
<1>1. TypeOK /\ Apart /\ [Next]_vars => Apart'
  BY InputStays DEF Apart, SoleDeploy
<1>2. TypeOK /\ SagaOrder /\ Gates /\ History /\ Effects /\ Apart => Known
  BY StageFacts, ImageFacts DEF Known, Apart
<1> QED
  BY <1>1, <1>2, EffectsInductive, PTL DEF Spec

\* Deploys that are apart keep their contract: nothing is changed before a deploy is
\* admitted, Promoted is reported only of a service that is new, and a rollback
\* without a fault takes the service back for good, at every call, under every
\* fault and for any number of deploys: see ImplementsContract.
THEOREM DeployImplementsContract == Spec /\ Apart => ImplementsContract
<1>1. Init => Contract!ContractInit
  <2> SUFFICES ASSUME Init PROVE Contract!ContractInit
    OBVIOUS
  <2>1. ASSUME NEW w \in Workflows
        PROVE  Stage(w) = "idle" /\ ServiceState(w) = "old" /\ ~Faulty(w)
    <3>1. pc[w] = "Idle" /\ \A a \in Activities : activity[w][a] = "none"
      BY DEF Init
    <3>2. Mutating \cup Compensations \subseteq Activities
      BY DEF Activities, Forward, Mutating
    <3>3. \A r \in Roles : <<input[w].Service, r>> \in Deployments
      BY CanaryAssumption DEF Init, CanaryInput, Deployments
    <3>4. ServiceState(w) = "old"
      BY <3>3 DEF Init, ClusterInit, ServiceState, stableName, canaryName, Roles
    <3> QED
      BY <3>1, <3>2, <3>4 DEF Stage, Faulty, Closed
  <2> QED
    BY <2>1 DEF Contract!ContractInit, Faulty
<1>2. Known /\ Known' /\ [Next]_vars => [Contract!ContractNext]_(Contract!contractVars)
  BY StepImplements
<1> QED
  BY <1>1, <1>2, KnownInductive, PTL DEF Spec, ImplementsContract, Contract!ContractSpec
=============================================================================
