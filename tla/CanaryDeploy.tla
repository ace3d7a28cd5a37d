---------------------------- MODULE CanaryDeploy ----------------------------
(***************************************************************************)
(* CanaryDeployWorkflow (internal/workflows/canary.go) with its saga, its  *)
(* approval gate and its activities (internal/activities), executed by a   *)
(* worker that may crash, against a cluster whose calls may fail.          *)
(*                                                                         *)
(* A workflow is at pc[w]: the activity whose result it awaits, the        *)
(* approval gate, or closed.  An activity is a sequence of client calls,   *)
(* one step each; the attempt that makes them can fail, lose a reply, time *)
(* out or die with the worker, and is retried up to MaximumAttempts.       *)
(***************************************************************************)
EXTENDS Cluster, ReplicaSplit, Sequences

CONSTANTS
  Workflows,     \* workflow executions
  Inputs,        \* the CanaryInputs executions may be started with
  MaxSignals,    \* bound: approve-promote signals sent to one execution
  RetryBound     \* bound: caps the attempts of every retry policy

CanaryInput == [Service        : Services,
                ImageTag       : Images,
                TargetReplicas : Nat,
                CanaryReplicas : Nat,
                BakeSeconds    : Nat,
                AutoPromote    : BOOLEAN,
                Simulate       : SUBSET {"policy", "health", "traffic"}]

ASSUME CanaryAssumption ==
  /\ Inputs \subseteq CanaryInput
  /\ MaxSignals \in Nat
  /\ RetryBound \in Nat \ {0}

VARIABLES
  input,      \* input[w]: the CanaryInput of w
  pc,         \* pc[w]: where the workflow function of w stands
  phase,      \* phase[w]: what the canary-status query answers
  activity,   \* activity[w][a]: the state, then the result, of activity a of w
  saga,       \* saga[w]: the compensations still to run, last one first
  status,     \* status[w]: CanaryResult.Status
  decision,   \* decision[w]: the outcome of the approval gate
  signals,    \* signals[w]: the approve-promote signals delivered so far
  cancelled,  \* cancelled[w]: whether cancellation was requested
  attempt,    \* attempt[w]: number of the current attempt
  call,       \* call[w]: the next client call of the running attempt
  verdict,    \* verdict[w]: what the last poll of the running bake showed
  zombie,     \* zombie[w]: a cancelled attempt that is still running
  worker      \* the worker process and its cached Kubernetes client

flowVars == <<pc, phase, saga, status, decision>>
attemptVars == <<attempt, call, verdict>>
vars == <<clusterVars, input, flowVars, activity, signals, cancelled,
          attemptVars, zombie, worker>>

-----------------------------------------------------------------------------
(* Activities and their options.                                           *)

Forward == {"PolicyCheck", "ScaleCanary", "HealthCheck", "ShiftTraffic",
            "RecordApproval", "Promote"}
Compensations == {"ScaleDownCanary", "ShiftTrafficBack"}
Activities == Forward \cup Compensations \cup {"Alert"}

\* Mutant: compensations and alert on the workflow's own context too.
AllConnected == Activities

\* Scheduled on the workflow's own context; the others run on a disconnected
\* one, which cancellation does not reach.
Connected == Forward

Closed == {"Completed", "Failed", "Canceled"}

Pending == {"queued", "running", "lost"}
Results == {"ok", "unhealthy", "rejected", "error", "canceled"}

\* RetryPolicy.MaximumAttempts of policyOpts, healthOpts, alertOpts, scaleOpts.
PolicyMaximum(a) ==
  [PolicyCheck    |-> 4, HealthCheck  |-> 2, Alert   |-> 3,
   RecordApproval |-> 3, ScaleCanary  |-> 5, Promote |-> 5,
   ShiftTraffic   |-> 5, ScaleDownCanary |-> 5, ShiftTrafficBack |-> 5][a]

MaximumAttempts(a) ==
  IF PolicyMaximum(a) < RetryBound THEN PolicyMaximum(a) ELSE RetryBound

(***************************************************************************)
(* The client calls one attempt of an activity makes, in order.            *)
(***************************************************************************)
Call(op, role, n) == [op |-> op, role |-> role, n |-> n]
SetImage(role) == Call("setImage", role, 0)
Scale(role, n) == Call("scale", role, n)
DryRunSetImage == Call("dryRun", "canary", 0)
DeploymentStatus == Call("status", "canary", 0)
Tick == Call("tick", "canary", 0)

CallType == [op : {"setImage", "scale", "status", "dryRun", "audit", "tick"},
             role : Roles, n : Nat]

\* Mutant: the policy probe's patch is persisted.
PersistentProbe(in) == << SetImage("canary") >>

PolicyCheck(in) ==
  IF "policy" \in in.Simulate THEN <<>> ELSE << DryRunSetImage >>

\* Mutant: the wrong Deployment is scaled.
ScaleStableInstead(in) ==
  << SetImage("canary"), Scale("stable", in.CanaryReplicas), DeploymentStatus >>

ScaleCanary(in) ==
  << SetImage("canary"), Scale("canary", in.CanaryReplicas), DeploymentStatus >>

ScaleDownCanary == << Scale("canary", 0) >>

HealthCheck(in) ==
  [i \in 1..in.BakeSeconds |-> IF "health" \in in.Simulate THEN Tick
                                                           ELSE DeploymentStatus]

CanaryWeight == 50

ShiftTraffic(in) ==
  IF "traffic" \in in.Simulate
  THEN <<>>
  ELSE << Scale("canary", CanaryShare(in.TargetReplicas, CanaryWeight)),
          Scale("stable", StableShare(in.TargetReplicas, CanaryWeight)) >>

\* Mutant: only the canary's half of the split is undone.
RetireCanaryOnly(in) == << Scale("canary", 0) >>

ShiftTrafficBack(in) ==
  << Scale("canary", 0), Scale("stable", AtLeastOne(in.TargetReplicas)) >>

\* Mutant: the canary is not retired.
PromoteKeepsCanary(in) == << SetImage("stable"), Scale("stable", in.TargetReplicas) >>

Promote(in) ==
  << SetImage("stable"), Scale("stable", in.TargetReplicas), Scale("canary", 0) >>

RecordApproval == << Call("audit", "canary", 0) >>

Alert == <<>>

Calls(a, in) ==
  [PolicyCheck      |-> PolicyCheck(in),
   ScaleCanary      |-> ScaleCanary(in),
   HealthCheck      |-> HealthCheck(in),
   ShiftTraffic     |-> ShiftTraffic(in),
   Promote          |-> Promote(in),
   ScaleDownCanary  |-> ScaleDownCanary,
   ShiftTrafficBack |-> ShiftTrafficBack(in),
   RecordApproval   |-> RecordApproval,
   Alert            |-> Alert][a]

\* Calls that reach the cluster and therefore need the Kubernetes client.
UsesClient(c) == c.op \in {"setImage", "scale", "status", "dryRun"}

\* The activities whose calls write to the cluster.
Mutating == {"ScaleCanary", "ShiftTraffic", "Promote"}

NoZombie == [act |-> "none", call |-> 0]

Positions == Activities \cup Closed \cup {"Idle", "Gate"}
Phases == {"none", "policy-check", "policy-rejected", "scale-canary", "health-bake",
           "shift-traffic", "awaiting-approval", "promote", "promoted"}
Statuses == {"none", "Promoted", "RolledBack", "TimedOut", "PolicyRejected"}
Decisions == {"none", "auto", "approved", "rejected", "timeout"}
Signals == [approve : BOOLEAN]
Zombies == [act : Mutating, call : Nat] \cup {NoZombie}

AttemptTypeOK ==
  /\ pc \in [Workflows -> Positions]
  /\ activity \in [Workflows -> [Activities -> {"none"} \cup Pending \cup Results]]
  /\ attempt \in [Workflows -> Nat]
  /\ call \in [Workflows -> Nat]
  /\ verdict \in [Workflows -> BOOLEAN]

TypeOK ==
  /\ ClusterTypeOK
  /\ AttemptTypeOK
  /\ input \in [Workflows -> Inputs]
  /\ phase \in [Workflows -> Phases]
  /\ saga \in [Workflows -> Seq(Compensations)]
  /\ status \in [Workflows -> Statuses]
  /\ decision \in [Workflows -> Decisions]
  /\ signals \in [Workflows -> Seq(Signals)]
  /\ cancelled \in [Workflows -> BOOLEAN]
  /\ zombie \in [Workflows -> Zombies]
  /\ worker \in {"down", "up", "ready", "broken"}

Init ==
  /\ ClusterInit
  /\ input \in [Workflows -> Inputs]
  /\ pc = [w \in Workflows |-> "Idle"]
  /\ phase = [w \in Workflows |-> "none"]
  /\ activity = [w \in Workflows |-> [a \in Activities |-> "none"]]
  /\ saga = [w \in Workflows |-> <<>>]
  /\ status = [w \in Workflows |-> "none"]
  /\ decision = [w \in Workflows |-> "none"]
  /\ signals = [w \in Workflows |-> <<>>]
  /\ cancelled = [w \in Workflows |-> FALSE]
  /\ attempt = [w \in Workflows |-> 0]
  /\ call = [w \in Workflows |-> 0]
  /\ verdict = [w \in Workflows |-> FALSE]
  /\ zombie = [w \in Workflows |-> NoZombie]
  /\ worker = "up"

Running(w) == pc[w] \notin Closed \cup {"Idle"}

-----------------------------------------------------------------------------
(***************************************************************************)
(* The workflow function.  It advances only when a live worker executes a  *)
(* workflow task; each of these actions is the code between two points     *)
(* where the function blocks.                                              *)
(***************************************************************************)
taskFrame == <<clusterVars, input, signals, cancelled, zombie, worker>>

\* ExecuteActivity(...).Get: an activity scheduled on a cancelled context
\* returns a CanceledError without being sent to the server.
Schedule(w, a) ==
  /\ pc' = [pc EXCEPT ![w] = a]
  /\ activity' = [activity EXCEPT ![w][a] =
                    IF cancelled[w] /\ a \in Connected THEN "canceled" ELSE "queued"]
  /\ attempt' = [attempt EXCEPT ![w] = 1]
  /\ UNCHANGED <<call, verdict>>

Close(w, how) ==
  /\ pc' = [pc EXCEPT ![w] = how]
  /\ UNCHANGED <<activity, attemptVars>>

\* Mutant: the stack is unwound first in, first out.
compensateInOrder(w) ==
  IF saga[w] = <<>>
  THEN Schedule(w, "Alert") /\ UNCHANGED saga
  ELSE Schedule(w, Head(saga[w])) /\ saga' = [saga EXCEPT ![w] = Tail(@)]

\* The loop of saga.compensate: the most recent registration first, then the
\* alert that unwind sends after it.
compensate(w) ==
  IF saga[w] = <<>>
  THEN Schedule(w, "Alert") /\ UNCHANGED saga
  ELSE /\ Schedule(w, saga[w][Len(saga[w])])
       /\ saga' = [saga EXCEPT ![w] = SubSeq(@, 1, Len(@) - 1)]

unwind(w, st) ==
  /\ status' = [status EXCEPT ![w] = st]
  /\ compensate(w)
  /\ UNCHANGED <<phase, decision>>

\* Mutant: a step that succeeded leaves no inverse.
registerNothing(w, a) == UNCHANGED saga

register(w, a) == saga' = [saga EXCEPT ![w] = Append(@, a)]

\* The worker resumes w with result r of the activity a it awaits.
Resumes(w, a, r) ==
  /\ worker # "down"
  /\ pc[w] = a
  /\ activity[w][a] = r

Proceed(w, p, a) ==
  /\ phase' = [phase EXCEPT ![w] = p]
  /\ Schedule(w, a)

StartWorkflow(w) ==
  /\ worker # "down"
  /\ pc[w] = "Idle"
  /\ Proceed(w, "policy-check", "PolicyCheck")
  /\ UNCHANGED <<taskFrame, saga, status, decision>>

AfterPolicyCheck(w) ==
  /\ \/ /\ Resumes(w, "PolicyCheck", "ok")
        /\ Proceed(w, "scale-canary", "ScaleCanary")
        /\ UNCHANGED status
     \/ /\ Resumes(w, "PolicyCheck", "rejected")
        /\ status' = [status EXCEPT ![w] = "PolicyRejected"]
        /\ Proceed(w, "policy-rejected", "Alert")
     \/ /\ Resumes(w, "PolicyCheck", "error")
        /\ Close(w, "Failed")
        /\ UNCHANGED <<phase, status>>
     \/ /\ Resumes(w, "PolicyCheck", "canceled")
        /\ Close(w, "Canceled")
        /\ UNCHANGED <<phase, status>>
  /\ UNCHANGED <<taskFrame, saga, decision>>

AfterScaleCanary(w) ==
  /\ \/ /\ Resumes(w, "ScaleCanary", "ok")
        /\ register(w, "ScaleDownCanary")
        /\ Proceed(w, "health-bake", "HealthCheck")
        /\ UNCHANGED <<status, decision>>
     \/ /\ \E r \in {"error", "canceled"} : Resumes(w, "ScaleCanary", r)
        /\ unwind(w, "RolledBack")
  /\ UNCHANGED taskFrame

AfterHealthCheck(w) ==
  /\ \/ /\ Resumes(w, "HealthCheck", "ok")
        /\ Proceed(w, "shift-traffic", "ShiftTraffic")
        /\ UNCHANGED <<saga, status, decision>>
     \/ /\ \E r \in {"unhealthy", "error", "canceled"} : Resumes(w, "HealthCheck", r)
        /\ unwind(w, "RolledBack")
  /\ UNCHANGED taskFrame

AfterShiftTraffic(w) ==
  /\ \/ /\ Resumes(w, "ShiftTraffic", "ok")
        /\ register(w, "ShiftTrafficBack")
        /\ \/ /\ input[w].AutoPromote
              /\ decision' = [decision EXCEPT ![w] = "auto"]
              /\ Schedule(w, "RecordApproval")
              /\ UNCHANGED <<phase, status>>
           \/ /\ ~input[w].AutoPromote
              /\ phase' = [phase EXCEPT ![w] = "awaiting-approval"]
              /\ pc' = [pc EXCEPT ![w] = "Gate"]
              /\ UNCHANGED <<activity, attemptVars, status, decision>>
     \/ /\ \E r \in {"error", "canceled"} : Resumes(w, "ShiftTraffic", r)
        /\ unwind(w, "RolledBack")
  /\ UNCHANGED taskFrame

(***************************************************************************)
(* waitForApproval.  The selector tries the signal channel first, so a     *)
(* buffered signal wins over a timer that has fired, and only the first    *)
(* signal counts.  Cancelling the workflow cancels the timer's context,    *)
(* which makes the timer's future ready: the same branch as a timeout.     *)
(***************************************************************************)
\* Mutant: a newer signal overrides the one that was first in the channel.
LastDecision(w) ==
  IF signals[w][Len(signals[w])].approve THEN "approved" ELSE "rejected"

Decision(w) == IF signals[w][1].approve THEN "approved" ELSE "rejected"

ReceiveApproval(w) ==
  /\ worker # "down"
  /\ pc[w] = "Gate"
  /\ signals[w] # <<>>
  /\ decision' = [decision EXCEPT ![w] = Decision(w)]
  /\ Schedule(w, "RecordApproval")
  /\ UNCHANGED <<taskFrame, phase, saga, status>>

\* Mutant: waitForApproval without the timer.
NoTimeout(w) == FALSE /\ UNCHANGED vars

ApprovalTimeout(w) ==
  /\ worker # "down"
  /\ pc[w] = "Gate"
  /\ signals[w] = <<>>
  /\ decision' = [decision EXCEPT ![w] = "timeout"]
  /\ Schedule(w, "RecordApproval")
  /\ UNCHANGED <<taskFrame, phase, saga, status>>

\* recordApproval ignores its result.
AfterRecordApproval(w) ==
  /\ \E r \in Results : Resumes(w, "RecordApproval", r)
  /\ \/ /\ decision[w] \in {"auto", "approved"}
        /\ Proceed(w, "promote", "Promote")
        /\ UNCHANGED <<saga, status, decision>>
     \/ /\ decision[w] = "rejected"
        /\ unwind(w, "RolledBack")
     \/ /\ decision[w] = "timeout"
        /\ unwind(w, "TimedOut")
  /\ UNCHANGED taskFrame

AfterPromote(w) ==
  /\ \/ /\ Resumes(w, "Promote", "ok")
        /\ phase' = [phase EXCEPT ![w] = "promoted"]
        /\ status' = [status EXCEPT ![w] = "Promoted"]
        /\ Close(w, "Completed")
        /\ UNCHANGED <<saga, decision>>
     \/ /\ \E r \in {"error", "canceled"} : Resumes(w, "Promote", r)
        /\ unwind(w, "RolledBack")
  /\ UNCHANGED taskFrame

\* A failed compensation is logged and the loop goes on.
AfterCompensation(w) ==
  /\ \E a \in Compensations, r \in Results : Resumes(w, a, r)
  /\ compensate(w)
  /\ UNCHANGED <<taskFrame, phase, status, decision>>

AfterAlert(w) ==
  /\ \E r \in Results : Resumes(w, "Alert", r)
  /\ Close(w, "Completed")
  /\ UNCHANGED <<taskFrame, phase, saga, status, decision>>

WorkflowTask(w) ==
  \/ AfterPolicyCheck(w)
  \/ AfterScaleCanary(w)
  \/ AfterHealthCheck(w)
  \/ AfterShiftTraffic(w)
  \/ ReceiveApproval(w)
  \/ ApprovalTimeout(w)
  \/ AfterRecordApproval(w)
  \/ AfterPromote(w)
  \/ AfterCompensation(w)
  \/ AfterAlert(w)

-----------------------------------------------------------------------------
(***************************************************************************)
(* Attempts of the activity a workflow awaits.                             *)
(***************************************************************************)
attemptFrame == <<input, flowVars, signals, cancelled, zombie, worker>>

IsAt(w, st) == pc[w] \in Activities /\ activity[w][pc[w]] = st

Finish(w, r) ==
  /\ activity' = [activity EXCEPT ![w][pc[w]] = r]
  /\ attempt' = [attempt EXCEPT ![w] = 0]
  /\ call' = [call EXCEPT ![w] = 0]
  /\ verdict' = [verdict EXCEPT ![w] = FALSE]

\* The server retries a failed attempt until the policy's maximum.
FailAttempt(w) ==
  \/ /\ attempt[w] < MaximumAttempts(pc[w])
     /\ activity' = [activity EXCEPT ![w][pc[w]] = "queued"]
     /\ attempt' = [attempt EXCEPT ![w] = @ + 1]
     /\ call' = [call EXCEPT ![w] = 0]
     /\ verdict' = [verdict EXCEPT ![w] = FALSE]
  \/ /\ attempt[w] >= MaximumAttempts(pc[w])
     /\ Finish(w, "error")

StartAttempt(w) ==
  /\ worker # "down"
  /\ IsAt(w, "queued")
  /\ activity' = [activity EXCEPT ![w][pc[w]] = "running"]
  /\ call' = [call EXCEPT ![w] = 1]
  /\ UNCHANGED <<attemptFrame, clusterVars, attempt, verdict>>

\* What a call that reaches the cluster does there.
Perform(c, in) ==
  \/ c.op = "setImage" /\ setImage(<<in.Service, c.role>>, in.ImageTag)
  \/ c.op = "scale" /\ scaleDeployment(<<in.Service, c.role>>, c.n)
  \/ c.op \notin {"setImage", "scale"} /\ UNCHANGED clusterVars

NextCall(w) == Calls(pc[w], input[w])[call[w]]

Calling(w) ==
  /\ IsAt(w, "running")
  /\ call[w] \in DOMAIN Calls(pc[w], input[w])

\* The call gets the error k8sClient has cached.
WithoutClient(w) == UsesClient(NextCall(w)) /\ worker = "broken"

CallSucceeds(w) ==
  /\ Calling(w)
  /\ UsesClient(NextCall(w)) => worker = "ready"
  /\ NextCall(w).op = "dryRun" => input[w].ImageTag \in Admitted
  /\ Perform(NextCall(w), input[w])
  /\ call' = [call EXCEPT ![w] = @ + 1]
  /\ verdict' = [verdict EXCEPT ![w] = /\ NextCall(w).op = "status"
                                       /\ HealthyStatus(input[w].Service)]
  /\ UNCHANGED <<attemptFrame, activity, attempt>>

(***************************************************************************)
(* The call returns error e and takes no effect; the activity returns at   *)
(* once.  A worker whose client could not be built gets the cached error,  *)
(* which is no APIStatus.  PolicyCheck turns what is not an infrastructure *)
(* error into a rejection, every other activity fails the attempt.         *)
(***************************************************************************)
CallFails(w) ==
  /\ Calling(w)
  /\ NextCall(w).op # "tick"
  /\ UsesClient(NextCall(w)) => worker \in {"ready", "broken"}
  /\ \E e \in ApiErrors :
       /\ WithoutClient(w) => e = "Transport"
       /\ ~WithoutClient(w) /\ e \notin OtherStatus => "call" \in Faults
       /\ e \in OtherStatus \ {"AdmissionDenied"} => "status" \in Faults
       /\ e = "AdmissionDenied" => /\ NextCall(w).op = "dryRun"
                                   /\ input[w].ImageTag \notin Admitted
       /\ \/ /\ NextCall(w).op = "dryRun" /\ ~isInfraError(e)
             /\ Finish(w, "rejected")
          \/ /\ NextCall(w).op # "dryRun" \/ isInfraError(e)
             /\ FailAttempt(w)
  /\ UNCHANGED <<attemptFrame, clusterVars>>

\* The call takes effect but its reply is lost: the activity sees an error.
ReplyLost(w) ==
  /\ "reply" \in Faults
  /\ Calling(w)
  /\ NextCall(w).op \in {"setImage", "scale"}
  /\ worker = "ready"
  /\ Perform(NextCall(w), input[w])
  /\ FailAttempt(w)
  /\ UNCHANGED attemptFrame

\* The attempt has made all its calls and reports what it returns.
ActivityReturns(w) ==
  /\ IsAt(w, "running")
  /\ call[w] \notin DOMAIN Calls(pc[w], input[w])
  /\ \/ /\ pc[w] = "PolicyCheck"
        /\ Finish(w, IF "policy" \in input[w].Simulate THEN "rejected" ELSE "ok")
     \/ /\ pc[w] = "HealthCheck"
        /\ Finish(w, IF verdict[w] THEN "ok" ELSE "unhealthy")
     \/ /\ pc[w] = "ShiftTraffic" /\ "traffic" \in input[w].Simulate
        /\ FailAttempt(w)
     \/ /\ pc[w] = "ShiftTraffic" => "traffic" \notin input[w].Simulate
        /\ pc[w] \notin {"PolicyCheck", "HealthCheck"}
        /\ Finish(w, "ok")
  /\ UNCHANGED <<attemptFrame, clusterVars>>

\* StartToClose or heartbeat timeout, of a running attempt or of one that
\* died with its worker.  A running one's context expires with it.
AttemptTimesOut(w) ==
  /\ IsAt(w, "lost") \/ (IsAt(w, "running") /\ "timeout" \in Faults)
  /\ FailAttempt(w)
  /\ UNCHANGED <<attemptFrame, clusterVars>>

-----------------------------------------------------------------------------
(***************************************************************************)
(* Cancellation.  The awaited future fails at once; an attempt of a        *)
(* mutating activity, which never heartbeats, does not notice and goes on  *)
(* while the workflow unwinds.                                             *)
(***************************************************************************)
Cancel(w) ==
  /\ "cancel" \in Faults
  /\ Running(w)
  /\ ~cancelled[w]
  /\ cancelled' = [cancelled EXCEPT ![w] = TRUE]
  /\ UNCHANGED <<clusterVars, input, flowVars, activity, signals, attemptVars,
                 zombie, worker>>

CancelActivity(w) ==
  /\ worker # "down"
  /\ cancelled[w]
  /\ pc[w] \in Connected
  /\ activity[w][pc[w]] \in Pending
  /\ zombie' = [zombie EXCEPT ![w] =
                  IF pc[w] \in Mutating /\ activity[w][pc[w]] = "running"
                  THEN [act |-> pc[w], call |-> call[w]] ELSE @]
  /\ Finish(w, "canceled")
  /\ UNCHANGED <<clusterVars, input, flowVars, signals, cancelled, worker>>

zombieFrame == <<input, flowVars, activity, signals, cancelled, attemptVars, worker>>

ZombieCalling(w) ==
  /\ zombie[w] # NoZombie
  /\ zombie[w].call \in DOMAIN Calls(zombie[w].act, input[w])

ZombieCall(w) ==
  /\ ZombieCalling(w)
  /\ worker = "ready"
  /\ Perform(Calls(zombie[w].act, input[w])[zombie[w].call], input[w])
  /\ zombie' = [zombie EXCEPT ![w].call = @ + 1]
  /\ UNCHANGED zombieFrame

\* It returns, fails or reaches its deadline; the server discards its result.
ZombieStops(w) ==
  /\ zombie[w] # NoZombie
  /\ zombie' = [zombie EXCEPT ![w] = NoZombie]
  /\ UNCHANGED <<zombieFrame, clusterVars>>

-----------------------------------------------------------------------------
(* Operators and the worker process.                                       *)

\* runApprove: the signal is stored with the execution wherever it stands.
Approve(w) ==
  /\ Running(w)
  /\ Len(signals[w]) < MaxSignals
  /\ \E b \in BOOLEAN :
       signals' = [signals EXCEPT ![w] = Append(@, [approve |-> b])]
  /\ UNCHANGED <<clusterVars, input, flowVars, activity, cancelled, attemptVars,
                 zombie, worker>>

workerFrame == <<clusterVars, input, flowVars, signals, cancelled, attempt>>

\* The first call builds the client, once for the life of the process: a
\* failure is cached like a success.
BuildClient ==
  /\ worker = "up"
  /\ \E w \in Workflows : \/ Calling(w) /\ UsesClient(NextCall(w))
                          \/ ZombieCalling(w)
  /\ worker' \in {"ready"} \cup (IF "client" \in Faults THEN {"broken"} ELSE {})
  /\ UNCHANGED <<workerFrame, activity, call, verdict, zombie>>

Crash ==
  /\ "crash" \in Faults
  /\ worker # "down"
  /\ worker' = "down"
  /\ activity' = [w \in Workflows |-> [a \in Activities |->
                    IF activity[w][a] = "running" THEN "lost" ELSE activity[w][a]]]
  /\ call' = [w \in Workflows |-> 0]
  /\ verdict' = [w \in Workflows |-> FALSE]
  /\ zombie' = [w \in Workflows |-> NoZombie]
  /\ UNCHANGED workerFrame

Restart ==
  /\ worker = "down"
  /\ worker' = "up"
  /\ UNCHANGED <<workerFrame, activity, call, verdict, zombie>>

PodChange ==
  /\ \E s \in Services : PodReady(s) \/ PodLost(s)
  /\ UNCHANGED <<input, flowVars, activity, signals, cancelled, attemptVars,
                 zombie, worker>>

Attempt(w) ==
  \/ StartAttempt(w)
  \/ CallSucceeds(w)
  \/ CallFails(w)
  \/ ReplyLost(w)
  \/ ActivityReturns(w)
  \/ AttemptTimesOut(w)
  \/ CancelActivity(w)
  \/ ZombieCall(w)
  \/ ZombieStops(w)

Next ==
  \/ \E w \in Workflows : \/ StartWorkflow(w)
                          \/ WorkflowTask(w)
                          \/ Attempt(w)
                          \/ Approve(w)
                          \/ Cancel(w)
  \/ BuildClient
  \/ Crash
  \/ Restart
  \/ PodChange

Spec == Init /\ [][Next]_vars

(***************************************************************************)
(* The server delivers workflow tasks and activity tasks again and again   *)
(* to a worker that is up now and then; it times attempts out; the worker  *)
(* is restarted.  Nothing makes a client call succeed.                     *)
(***************************************************************************)
Fairness ==
  /\ WF_vars(Restart)
  /\ \A w \in Workflows : /\ SF_vars(WorkflowTask(w))
                          /\ SF_vars(StartAttempt(w))
                          /\ WF_vars(AttemptTimesOut(w))

FairSpec == Spec /\ Fairness

-----------------------------------------------------------------------------
(* Properties.                                                             *)

\* No other execution deploys the service of w.
SoleDeploy(w) == \A v \in Workflows \ {w} : input[v].Service # input[w].Service

StableUntouched(s) == /\ image[stableName(s)] = InitialImage
                      /\ replicas[stableName(s)] = BaseReplicas

CanaryUntouched(s) == /\ image[canaryName(s)] = InitialImage
                      /\ replicas[canaryName(s)] = 0

RolledBack(w) == pc[w] = "Completed" /\ status[w] \in {"RolledBack", "TimedOut"}

\* w baked its image healthy and was told to promote it.
Approved(w) ==
  /\ activity[w]["HealthCheck"] = "ok"
  /\ IF input[w].AutoPromote
     THEN decision[w] = "auto"
     ELSE signals[w] # <<>> /\ signals[w][1].approve

\* A stable Deployment runs an image other than the first one only if some
\* execution that deploys this image there has baked it healthy and was told
\* to promote: by its first signal, or by AutoPromote.  Retries, lost replies,
\* crashes, a cancellation and a zombie Promote change nothing of that.
NoPromoteWithoutApproval ==
  \A s \in Services :
    image[stableName(s)] # InitialImage =>
      \E w \in Workflows : /\ input[w].Service = s
                          /\ input[w].ImageTag = image[stableName(s)]
                          /\ Approved(w)

\* A service never loses its last stable replica, in any state between any two
\* calls, as long as the deploys of it ask for at least two target replicas.
StableNeverDrained ==
  \A s \in Services :
    (BaseReplicas > 0 /\ \A w \in Workflows :
        input[w].Service = s => input[w].TargetReplicas > 1)
      => replicas[stableName(s)] > 0

\* Until the policy gate has let a deploy pass, whatever happens to its check
\* (retries, rejection, failure, cancellation), it has not written anything.
NoWriteBeforePolicy ==
  \A w \in Workflows :
    SoleDeploy(w) /\ activity[w]["PolicyCheck"] # "ok" =>
      StableUntouched(input[w].Service) /\ CanaryUntouched(input[w].Service)

\* Stable is not touched, neither image nor count, unless the bake ended healthy.
NoStableWriteBeforeHealthy ==
  \A w \in Workflows :
    SoleDeploy(w) /\ activity[w]["HealthCheck"] # "ok" =>
      StableUntouched(input[w].Service)

\* A bake that ends healthy is about pods of the deployed image: an image whose
\* pods never become ready does not get past HealthCheck.
HealthyMeansRunnable ==
  \A w \in Workflows :
    activity[w]["HealthCheck"] = "ok" => input[w].ImageTag \in Runnable

\* A rollback attempts the inverse of every forward step that succeeded, to its
\* end, even when cancelled and even when an earlier inverse failed; and the
\* deploy is not reported before.
EveryCompensationRuns ==
  \A w \in Workflows :
    RolledBack(w) =>
      /\ activity[w]["ScaleCanary"] = "ok"
           => activity[w]["ScaleDownCanary"] \in {"ok", "error"}
      /\ activity[w]["ShiftTraffic"] = "ok"
           => activity[w]["ShiftTrafficBack"] \in {"ok", "error"}

\* Inverses run in the reverse order of the steps they undo: traffic is given
\* back, successfully or not, before the canary is scaled down.
CompensationsReversed ==
  \A w \in Workflows :
    /\ activity[w]["ScaleDownCanary"] # "none"
    /\ activity[w]["ShiftTraffic"] = "ok"
    => activity[w]["ShiftTrafficBack"] \in {"ok", "error"}

\* Promoted is the truth about the cluster: the new image at the target count
\* and no canary left, however many attempts it took.
PromotedConverges ==
  \A w \in Workflows :
    LET s == input[w].Service
    IN  SoleDeploy(w) /\ status[w] = "Promoted" =>
          /\ image[stableName(s)] = input[w].ImageTag
          /\ replicas[stableName(s)] = input[w].TargetReplicas
          /\ replicas[canaryName(s)] = 0

\* What the inverses leave when they have run: no canary, stable with its first
\* image and, if it was given its traffic back, with the count w asks for, which
\* need not be the one it had.
LeftOld(w) ==
  LET s == input[w].Service
  IN  /\ replicas[canaryName(s)] = 0
      /\ image[stableName(s)] = InitialImage
      /\ replicas[stableName(s)] = IF activity[w]["ShiftTrafficBack"] = "none"
                                   THEN BaseReplicas
                                   ELSE AtLeastOne(input[w].TargetReplicas)

\* Neither a mutating step that failed half way nor an inverse that failed.
CleanHistory(w) ==
  /\ \A a \in Mutating : \/ activity[w][a] \in {"none", "ok"}
                         \/ Calls(a, input[w]) = <<>>
  /\ \A a \in Compensations : activity[w][a] \in {"none", "ok"}

\* If every mutating step succeeded, wrote nothing or was never started, and every
\* inverse succeeded, a rolled back deploy leaves the first image, no canary, and
\* stable at its old count or, if it shifted traffic, at the deploy's own target,
\* no matter how many attempts, lost replies and crashes there were on the way.
\* Where the target is not the old count, the service is thus not as it was.
CleanRollbackLeavesOld ==
  \A w \in Workflows :
    SoleDeploy(w) /\ RolledBack(w) /\ CleanHistory(w) => LeftOld(w)

\* How much a mutating step that failed for good, anywhere between its calls, can
\* leave behind once the inverses of the steps before it have succeeded: a canary
\* but nothing on stable, or stable short of replicas but no canary, or the new
\* image on stable, at full count and without a canary.
FailedStepContained ==
  \A w \in Workflows :
    LET s == input[w].Service
        target == input[w].TargetReplicas
        stable == replicas[stableName(s)]
        canary == replicas[canaryName(s)]
        failed(a) == activity[w][a] = "error"
    IN  /\ SoleDeploy(w) /\ RolledBack(w)
        /\ \A c \in Compensations : activity[w][c] \in {"none", "ok"}
        => /\ failed("ScaleCanary") =>
                StableUntouched(s) /\ canary \in {0, input[w].CanaryReplicas}
           /\ failed("ShiftTraffic") =>
                /\ canary = 0 /\ image[stableName(s)] = InitialImage
                /\ stable \in {BaseReplicas, StableShare(target, CanaryWeight)}
           /\ failed("Promote") =>
                /\ canary = 0 /\ stable = AtLeastOne(target)
                /\ image[stableName(s)] \in {InitialImage, input[w].ImageTag}

\* Deploys of one service that overlap without any mutual exclusion still leave
\* it whole: when none is in progress and none had a step or an inverse fail,
\* there is no canary, and stable stands at its first count or at a deploy's target.
OverlappingDeploysLeaveServiceWhole ==
  \A s \in Services :
    LET on == {w \in Workflows : input[w].Service = s}
    IN  (\A w \in on : ~Running(w) /\ CleanHistory(w) /\ zombie[w] = NoZombie) =>
          /\ replicas[canaryName(s)] = 0
          /\ replicas[stableName(s)] \in
               {BaseReplicas} \cup {input[w].TargetReplicas : w \in on}
                              \cup {AtLeastOne(input[w].TargetReplicas) : w \in on}

\* The documentation says of a rollback that it undoes the change "when any step
\* fails".  A step that fails after some of its calls took effect has not
\* registered its inverse; this is what a rollback in which no inverse failed
\* should still achieve, at whichever of the two counts.
FailedStepUndone ==
  \A w \in Workflows :
    /\ SoleDeploy(w) /\ RolledBack(w)
    /\ \E a \in Mutating : activity[w][a] = "error"
    /\ \A c \in Compensations : activity[w][c] \in {"none", "ok"}
    => LeftOld(w)

\* A cancelled deploy that reports RolledBack, all its inverses having
\* succeeded, has left its service old, at whichever count.
CancelledDeployUndone ==
  \A w \in Workflows :
    /\ SoleDeploy(w) /\ RolledBack(w) /\ cancelled[w]
    /\ \A c \in Compensations : activity[w][c] \in {"none", "ok"}
    => LeftOld(w)

\* While a rollback gives traffic back, the canary is not taken away before
\* stable is at full count again.
TrafficBackBeforeCanaryGone ==
  \A w \in Workflows :
    /\ SoleDeploy(w)
    /\ pc[w] = "ShiftTrafficBack"
    /\ replicas[canaryName(input[w].Service)] = 0
    => replicas[stableName(input[w].Service)] = AtLeastOne(input[w].TargetReplicas)

\* PolicyRejected is the webhook's decision about the image (or an injected one):
\* no outage, no lost connection and no unusable client is mistaken for one.
RejectedMeansDenied ==
  \A w \in Workflows :
    status[w] = "PolicyRejected" =>
      input[w].ImageTag \notin Admitted \/ "policy" \in input[w].Simulate

\* Every deploy that is started ends: through the approval timeout if nobody
\* decides, through the retry limits if the cluster or the worker never
\* recovers.
EveryDeployCloses ==
  \A w \in Workflows : Running(w) ~> pc[w] \in Closed
=============================================================================
