# A TLA+ model of TemporalOps

TemporalOps deploys a new image of a service to Kubernetes as a Temporal
workflow: policy check, canary, bake, traffic shift, approval, promotion, and a
hand-written saga that rolls back. This directory models that program in TLA+,
checks the models with TLC and proves theorems about them with TLAPS. Paths are
relative to the repository (`internal/...`, `cmd/...`).

## The system

| Component | State it keeps | Operations | What makes it correct |
|---|---|---|---|
| `CanaryDeployWorkflow` (`workflows/canary.go`) | position, phase, result | one activity after the other; on failure `unwind` | nothing reaches stable unchecked; the result tells the truth about the cluster; it ends |
| saga (`workflows/saga.go`) | stack of compensations | `register`, `compensate` | every registered inverse runs, last one first, whatever fails or is cancelled |
| approval gate (`waitForApproval`, `workflows/signals.go`) | signal channel, timer | signal, timeout | the decision that counts is the first signal sent, early ones included; it promotes only what baked healthy; without one the deploy is rolled back |
| activities (`internal/activities`) | none of their own | sequences of client calls | idempotent: any number of attempts converges |
| client helpers (`activities/k8s_client.go`) | client built once per process | scale, patch, dry-run patch, get | errors are classified rightly |
| cluster (external) | image, replica count and ready pods of two Deployments a service | calls; its own controllers | |
| worker (`cmd/worker`) | the process | executes workflow and activity tasks; may die | a restart resumes, without lost or doubled effects |
| starter (`cmd/starter`) | none | start, approve, query | identifiers keep deploys apart |
| `ReleaseOrchestratorWorkflow` (`workflows/orchestrator.go`) | child futures, results | fan-out, fan-in | every service accounted for once; no half-deploys |
| audit trail (`internal/audit`, `RecordApproval`) | append-only table | `Record` at start and end, and for a decision | nothing missing, nothing double |
| `HelloWorkflow`, configuration, scripts, manifests, dashboards | | | no logic of the deploy |

The starter asks the Temporal server for an execution and sends it signals. The
server hands workflow tasks and activity tasks to the worker, repeats failed or
silent attempts under each activity's `RetryPolicy`, and passes results back.
Activities call the Kubernetes API server; the cluster's controllers follow with
pods, whose readiness the bake reads back. Two deploys share nothing but the
cluster and the worker, and nothing keeps two deploys of one service apart.

What is hard here is what lies between the calls: an activity is not atomic, a
reply may be lost after the call took effect, an attempt may time out or die
with the worker and be repeated over its own effects, cancellation reaches the
workflow but not a running activity, signals arrive when they like.
`PROJECT.json` lists these hazards at their lines, each with the properties
that would show it, or with the reason why none does.

On top of that, the audit trail is written by several attempts of one activity
at a time, of which only one counts, and by processes that die between two rows.
A release depends on what its children report and on how the server ends them.

## The modules

| Module | Models |
|---|---|
| `ReplicaSplit` | the arithmetic of `traffic.go`: clamped target, rounded canary share, the rest for stable |
| `Cluster` | stable and canary Deployments, the client helpers' effect on them, the classes of API errors, readiness of canary pods |
| `CanaryDeploy` | the workflow function, saga, gate, activities, retries, cancellation, worker; extends the two above |
| `DeployContract` | abstract: what one deploy promises to whoever starts it, without activities, saga, worker |
| `CanaryRefinement` | the mapping under which `CanaryDeploy` implements `DeployContract` |
| `Release` | `ReleaseOrchestratorWorkflow` with children that keep `DeployContract`, which it extends |
| `AuditLog` | the store, the interceptor, `RecordApproval`, the worker's start |
| `MCReplicaSplit`, `MCCanaryDeploy`, `MCRelease` | the instances TLC checks; `AuditLog` needs none |
| `CanaryDeployProofs`, `ReleaseProofs`, `AuditLogProofs`, `ReplicaSplitProofs` | theorems about the module they are named for |
| `SagaProofs`, `GateProofs` | theorems about the saga and the two gates of `CanaryDeploy`; each extends the one before |
| `EffectProofs` | theorems about what the calls of one deploy, or of several that overlap, leave in the cluster |
| `RefinementProofs` | that `CanaryDeploy` implements `DeployContract` |

`CanaryDeploy` is too large to be multiplied by the number of a release's
services, so the two are composed through the contract: `CanaryDeploy` is
checked to implement it, and `Release` runs as many copies of it as the list has
entries.

### How CanaryDeploy corresponds to the code

- `pc[w]` is the blocking point of the workflow function of execution `w`: the
  activity whose future it waits for, `"Gate"` for the selector, or how it was
  closed. `After<Activity>` is the code from that point to the next one, every
  assignment and branch of it; `StartWorkflow` is the code up to the first.
  `phase`, `status`, `saga` and `decision` are the function's variables.
- `ReceiveApproval` and `ApprovalTimeout` are the two branches of the selector.
  The receive was added first, so a buffered signal wins over a fired timer, and
  the first signal is the one received. Cancelling the workflow makes the
  timer's future ready, so the timeout branch also stands for cancellation at
  the gate.
- `unwind` and `compensate` schedule one inverse after the other, and then the
  alert, on a disconnected context: `Connected` lists the activities that
  cancellation does reach.
- An activity is the sequence of calls its operator (`ScaleCanary(in)`,
  `Promote(in)`, ...) lists in the order of the code. `StartAttempt` begins an
  attempt, `CallSucceeds`, `CallFails` and `ReplyLost` are the outcomes of its
  next call, `ActivityReturns` its return, `AttemptTimesOut` the end the server
  puts to it. `FailAttempt` queues the next attempt or, at the policy's
  `MaximumAttempts`, delivers the error. Attempts start over at the first call.
- `HealthCheck` keeps only its last poll (`verdict`). `PolicyCheck` tells a
  rejection from a retry by `isInfraError`.
- `CancelActivity` fails the awaited future at once (`WaitForCancellation` is
  unset). A running attempt of an activity that writes never heartbeats, so it
  does not notice: it stays as `zombie[w]` and goes on calling (`ZombieCall`).
- `BuildClient` is the `sync.Once` of `k8sClient`, whose failure is cached too;
  `Crash` loses the process with its client and running attempts, which the
  server knows as lost only when they time out; `Restart` is the next process.
- `Approve` is the starter's `runApprove`: the server stores the signal wherever
  the execution stands.
- One call of a helper is one step. `scaleDeployment` is a read and a
  conditional update on the resource version, so it either takes effect
  atomically or answers Conflict, which is among the errors.

### The contract of a deploy

A deploy is `checking` until the policy gate has let it pass, `changing` up to
its result, `undoing` from the call of `unwind` on. Its service is `"old"` (the
first image, no canary, and stable at its first count or at the one the deploy
asks for, which is what its rollback leaves), `"new"` (the deployed image at the
target and no canary) or `"mixed"`. It is `faulty` once a mutating step or an
inverse failed for good or was cancelled: the saga registers no inverse of such
a step, and what the service becomes is open. The contract says that

- nothing changes before the gate, and a refused deploy has changed nothing;
- a service that is new is not undone unless the deploy is faulty, and only with
  its service new is a deploy `Promoted`;
- a rollback of a deploy that is not faulty ends with its service old, and once
  old it stays so.

`Stage`, `ServiceState` and `Faulty` read this off the state of `CanaryDeploy`;
each call of an activity is a step of the contract or leaves it unchanged. The
mapping takes the deploy to be alone on its service, which `Release` guarantees
its children of each other (`OneDeployPerService`).

### How Release corresponds to the code

- `StartRelease` is the loop over `in.Services` up to the first blocking `Get`.
  All children are requested in one workflow task; `StartChild` is the server
  starting one of them. The identifier of a child is made of the release's and
  the service's name, so the second child of a service, requested in the same
  task as the first, is refused as a duplicate of it: `Duplicates`.
- `Gather` is one turn of the fan-in loop, in the order of the list. An error of
  the child counts as `RolledBack` (`Outcome`). `results` are the statuses of
  `ReleaseResult.Results`; `promoted` and `notPromoted` are its two lists, as the
  sets of the services they name. `Complete` is what follows the loop,
  `AllPromoted` the flag of the result, that `notPromoted` is empty.
- `Cancel` requests cancellation. The children's futures may then fail before
  the children have closed (`Resolved`), so the orchestrator may complete while
  they unwind. What cancellation does to a child is a fault of its contract.
- When the orchestrator has closed, the parent close policy terminates the
  children that are open, some time later (`TerminateChild`). A terminated child
  runs no code, but the attempt it was waiting for goes on (`LateCall`).
- The list, of any length up to `Length`, is what the starter's `runRelease`
  makes of the command line, which may name a service twice or none at all.

### How AuditLog corresponds to the code

- `rows` is the table in the order of its `id`, in which `QueryByWorkflow`
  reads it, of one workflow identifier. It starts empty or with the trail of an
  earlier run under the same identifier, whose activity identifiers are the
  same. `Insert` is `INSERT OR IGNORE` on the index `audit_idem`.
- An execution runs through `activityInbound.ExecuteActivity`: `RecordStart`,
  the activity (`RecordApproval`, which writes a row too, or `Promote`),
  `RecordEnd`, and `Report`, the return to the SDK. The interceptor ignores the
  errors of its insertions, the activity returns the one of its own.
- The server waits for one attempt of one activity; `TimeOut` gives it up while
  the worker may still be executing it, and discards what it reports then. As
  `recordApproval` ignores its error, the promotion follows either way.
- `Crash` loses executions, process and default store, `StartWorker` opens the
  table again and sets the default store before the process polls.

### What is abstracted

Actors, reasons and log lines are left out. Counts are natural numbers: the
narrowing to `int32` is not modelled, nor negative counts on the command line.
Quotients in `float64` are exact where rounding could go either way (see
`RoundedShare`). A request is applied while its attempt runs: one that lands
after the attempt has timed out is not modelled, except as a zombie's.
There is one worker process. Time is not modelled: timeouts may happen at any
moment they could. Stable's pods and their readiness are not modelled. Alert only
logs, so it has no calls. A NotFound or Unauthorized is an error of a single
call, not a state of the cluster that lasts. Of the statuses `isInfraError`
does not list, the webhook's denial always answers an image it vetoes; others
(Unauthorized, Conflict) are the fault kind `"status"`.

`Release` takes a change of a service as one step between three states of it,
lets children have their services to themselves, and leaves out the order and the
repetitions of the names in `Promoted` and `NotPromoted`: deploys started outside of
the release are the subject of `canary_pair` and `stale_pods`. `AuditLog` keeps
the identity, phase and status of a row; actor, detail and timestamp are left
out, and the decision is one to promote.

## The runs

`Faults` says which failures the environment may inject into `CanaryDeploy`:
calls that fail with an outage (`"call"`) or with another status (`"status"`),
lost replies, timeouts, failure to build the client, crashes, cancellation, pods
that stop being ready. It bounds a run, the code does not depend on it.

| Run | Instance | Shows |
|---|---|---|
| `replica_split` | targets 0..12, weights 0..100 | the split is the nearest admissible one and keeps the total |
| `canary_single` | one deploy, ten inputs, all faults, up to two signals, two attempts | type invariant, ten safety properties, and that the deploy implements `DeployContract` |
| `canary_pair` | two deploys of one service (targets 2 and 3), lost replies, two attempts, symmetry on executions | overlapping deploys without failed steps leave the service whole |
| `canary_liveness` | one deploy with a gate, all faults but `"status"`, an admitted and a vetoed image, fairness | every deploy closes, and only a denial is reported as one |
| `release` | a list of up to three entries, the third naming the first one's service again, fairness | type invariant, four safety properties, and that a release ends |
| `audit` | two attempts, two executions at a time, one failed insertion, crashes | type invariant, what the trail shows, and that it only grows |

Six more runs each check one statement that the documentation makes and the
code does not keep; `PROJECT.json` quotes the statement. Those of `CanaryDeploy`
use the code's own retry limits (`RetryBound = 5`) and only the faults they need.

| Run | The code, against the documentation |
|---|---|
| `failed_step` | a failed step stays: only successful steps register an inverse, `Promote` has none |
| `cancelled_deploy` | a cancelled deploy reports `RolledBack`, its last activity's effects stay |
| `traffic_back` | the canary goes before stable is back |
| `stale_pods` | a bake passes on ready pods of another image, with two deploys of one service |
| `release_terminated` | termination stops the children and leaves half-deploys |
| `audit_duplicates` | the decision is recorded again by the attempt after a crash |

`failed_step` stops at the shortest case, a `ScaleCanary` that fails after its
calls took effect. What any of the three mutating steps can leave behind is said
by `FailedStepContained`, in `canary_single`. Both `failed_step` and
`cancelled_deploy` ask for `LeftOld` only (see `CleanRollbackLeavesOld`), so that
what they find is a step that was not undone and not merely another count.

Two more disagreements have no run of their own, because a passing property says
exactly what the code does instead:

- README ("rolls the change back") and the comment on `saga` ("effects are
  undone") promise the service as it was. `ShiftTrafficBack` sets stable to the
  deploy's own target (`traffic.go:65-69`) and nobody has read the count before:
  a service of three replicas, rolled back from a deploy with a target of two, is
  left with two, though no call failed. This is `CleanRollbackLeavesOld`.
- The comment on `ReleaseResult` (`orchestrator.go:18-19`) has the caller see
  "exactly which services promoted and which did not". A service that is listed
  twice and whose deploy is promoted is in both lists, since its second entry was
  refused, and `AllPromoted` is false. This is `PartialFailureSurfaced`.

`HealthyMeansRunnable` appears twice: it holds for a deploy that has the service
to itself (`canary_single`), and fails when deploys overlap (`stale_pods`).

### The properties

Of a deploy alone on its service, unless said otherwise:

- `NoPromoteWithoutApproval`: stable's image comes only from an execution that
  baked it healthy and was told to promote, for any set of deploys.
- `StableNeverDrained`: stable keeps a replica in every state, for any set of
  deploys that ask for two or more. With a target of one the split gives stable
  none, hence the condition.
- `NoWriteBeforePolicy`, `NoStableWriteBeforeHealthy`: no effect before its gate,
  whatever the retries and the cancellation.
- `HealthyMeansRunnable`: a bake does not pass an image whose pods never get
  ready, not with a bake of zero seconds nor a canary of zero replicas.
- `EveryCompensationRuns`, `CompensationsReversed`: the saga's contract, under
  cancellation and failing inverses.
- `PromotedConverges`: `Promoted` is true of the cluster after any number of
  attempts and lost replies.
- `CleanRollbackLeavesOld`: a rollback without failed steps leaves the first
  image, no canary, and stable at its first count or, if traffic was given back,
  at the count the deploy asked for (`LeftOld`). The count from before the deploy
  it does not promise, and the run has a deploy for which the two differ; where
  they are equal the service is as it was (theorem `RollbackRestores`).
- `FailedStepContained`: a rollback after a step that failed for good, which is
  the premise the one above excludes. It bounds what is left: by `ScaleCanary` a
  canary but nothing on stable, by `ShiftTraffic` stable at its share but no
  canary, by `Promote` the new image on stable, at full count. `failed_step` shows
  that such remains do occur; after a cancelled step (`cancelled_deploy`) there is
  no such bound, as its calls go on.
- `OverlappingDeploysLeaveServiceWhole`, of any number of deploys of one service.
- `EveryDeployCloses`: liveness.
- `RejectedMeansDenied`: no outage, lost connection or unusable client ends a
  deploy as a policy decision.
- `ImplementsContract`: the contract above, at every call and under every fault.

Of a release:

- `AllPromotedIsTrue`: even a cancelled release does not claim a promotion that
  did not take place.
- `PartialFailureSurfaced`: `Promoted` names exactly the services that had a
  deploy promoted, `NotPromoted` exactly those with an entry that was not, and no
  child is still at work. It depends on the fan-in waiting for every future
  before it returns. A service that is listed once is therefore in one list only.
  One that is listed twice is in both, if its deploy was promoted: the run has
  such a list. The theorem `OutcomesApart` proves that the lists have nothing in
  common when no service is repeated.
- `NoHalfDeploy`: a release that ran to its end leaves every service old or new,
  unless a step failed. `release_terminated` shows it does not hold of a release
  that is terminated.
- `OneDeployPerService`: a duplicate in the list does not make two deploys
  overlap.
- `EveryReleaseEnds`: liveness.

Of the trail:

- `ResultOnRecord`: what the server took for the result of an activity is in the
  trail as such, behind its start row, whatever other attempts wrote meanwhile.
- `ApprovalBeforePromotion`: a decision the server knows to be recorded is there
  before anything of the promotion.
- `AppendOnly`: nothing in the table changes, and nothing is lost in a crash.

### Bounds, and why they are enough

`RetryBound` caps the attempts of every policy (2, of 2 to 5 in the code): a
first and a last attempt are the two kinds there are, as an attempt starts over
without memory of those before it but for what they left in the cluster.
`MaxSignals = 2` gives a first decision and a contradicting second one. Two
executions suffice for a conflict over one service. Targets 3, 2 and 0 are an
odd split, an even one (with the gate) and the clamped target; one canary replica and none, one
poll and none, are the two kinds of bakes, the verdict being that of the last
poll. Four images: the first one, one that runs, one that never gets ready and one
that the admission webhook denies.
`canary_pair` leaves out crashes and cancellation to keep the product of two
executions small.

Three entries of two services give a duplicate, a service of its own and every
order in which their children can end; the empty list is among the sizes. For
the trail, `MaximumAttempts = 2` (3 and 5 in the code) and `MaxExecs = 2` let the
last attempt run beside one that was given up; `MaxMissed = 1` loses any one row.
`audit_duplicates` has the three attempts of `alertOpts`.

`CHECK_DEADLOCK FALSE` appears where crashes are not among the faults, or where
the model is arithmetic only: when all deploys are closed nothing is left to do.

### Fairness

`Restart` is weakly fair: the worker is run under supervision or by an
operator, as in `scripts/chaos/kill-worker.sh`. Workflow tasks and the start of
attempts are strongly fair: the server delivers a task again and again, and a
worker that comes up infinitely often eventually gets through it, though no
bound is put on the number of crashes. `AttemptTimesOut` is weakly fair: every
activity has a `StartToCloseTimeout` that the server enforces; where an attempt
makes progress instead, it ends by itself. No client call is assumed to succeed
and nobody is assumed to decide. `ApprovalTimeout` is one of the workflow tasks.

In `Release` the turns of the fan-in are weakly fair, as workflow tasks are, and
so are the start of a child and its way to its next stage. That a deploy gets
there is what `EveryDeployCloses` shows of `CanaryDeploy`. The terminations are
not assumed to be carried out.

## The proofs

All theorems hold for every value of the constants that satisfies the named
assumptions, which type them: `ClusterAssumption` and `CanaryAssumption`,
`ContractAssumption` and `ReleaseAssumption`, `AuditAssumption`,
`MaxTargetAssumption`. Three theorems assume more, each for a reason given with
it: `RejectionIsDenial`, `HealthyIsRunnable` and `DeployImplementsContract`.
`RollbackRestores` and `OutcomesApart` have their condition in the statement.

`CanaryDeployProofs`, for every set of services, images, executions and inputs,
any number of signals, any faults and any retry limit:

- `TypeCorrect`: `Spec => []TypeOK`. `TypeOK` is inductive. `CallFacts` says what
  the calls of an activity are and `HalfShare` that the two shares are natural
  numbers, which keeps the counts so.
- `StableServes`: `Spec => []StableNeverDrained`. With the type invariant it is
  inductive: `StepOnStable` shows that a step that changes stable's count
  performs a call of a deploy of that service, and `CallFacts`, through
  `HalfShare`, that no such call asks for zero when the target is two or more.
- `PromotionApproved`: `Spec => []NoPromoteWithoutApproval`. This one is not
  inductive: the call that writes stable's image reads neither verdict nor
  decision. `ApprovalOrder` strengthens it by what the position of the workflow
  says of both: where the bake is behind, where the decision is, and that an
  execution promotes (or has a `Promote` running on as a zombie) only after a
  decision to promote. `TaskKeepsOrder` shows it for workflow tasks,
  `OtherSteps` and `StepOrder` for the rest.

`SagaProofs`: `CompensationsComplete` and `CompensationsInReverse` are
`EveryCompensationRuns` and `CompensationsReversed`. Neither is inductive:
nothing in the step that completes a rollback looks at the results. `SagaOrder`
ties the stack to them: what is on the stack at which position while the
workflow goes forward (`ForwardStack`) and unwinds (`UnwindingStack`), that an
inverse on the stack has not run and that none is cancelled (`Inverses`), and
that the inverse of a step that succeeded is on the stack, running, or has ended
(`Covered`). `compensateKeepsSaga` and `ForwardKeepsSaga` are the two kinds of
workflow tasks, `TaskKeepsSaga` goes through the tasks; `ActivitySteps` says what
any other step can do to the results.

`GateProofs`: `PolicyFirst` and `HealthFirst` are `NoWriteBeforePolicy` and
`NoStableWriteBeforeHealthy`. `Gates` says that an execution that stands behind
a gate, or has a zombie that comes from there, was let through by it;
`WriteStep` that a Deployment is written only for an execution of its service
that executes an activity that writes there. `TaskMoves` is the control flow of
the workflow function in one formula; that the inverse of the shift, which writes
stable, is reached only behind the bake follows from `SagaOrder`.
`RejectionIsDenial` is `RejectedMeansDenied`, under the assumption that
`"status"` is not among the faults: other statuses that `isInfraError` does not
list do end a check as rejected. `RejectionSource` finds the one call that can.

`EffectProofs`: an activity is neither atomic nor executed once, so what a result
says of the cluster is not inductive either. Two invariants carry it.

- `History`, of the control flow: the steps an execution has behind it succeeded
  (`Behind`), the status says on which path it is (`Path`), which results a
  writing activity can have (`Outcomes`), that only a step that succeeded has an
  inverse on the stack or in its results (`Registered`), and that a zombie is
  left of a cancelled activity (`Straggling`). `TaskTurns` gives every workflow
  task as one of four kinds of turns, `ResultSource` and `ZombieSource` say where
  a result and a zombie can come from. It follows that the result of a step is
  final and that no step is scheduled again (`ResultsStay`).
- `Effects`, of the cluster, for a deploy alone on its service and without a
  fault: the calls a running attempt has behind it hold (`InProgress`), an
  attempt starting with none; what was not written yet is as it was at first, and
  `Promote` and the inverses, once ok, hold for good (`Settled`). Two calls of an
  activity never write the same thing (`CallsApart`), so that repeating them, or
  losing a reply, undoes nothing.

`PromotionIsTrue` and `RollbackLeavesOld` are `PromotedConverges` and
`CleanRollbackLeavesOld` from the two. `RollbackRestores` adds that the service
is as it was, count included, where the deploy asks for the count stable had. `HealthyIsRunnable` is
`HealthyMeansRunnable` while no two deploys share a service; the run
`stale_pods` shows that it is false without this. Its invariant `Readiness` says
that the canary gets no replicas before it has the deployed image (`Tagged`), so
that an image that cannot be run never gets a ready pod, a healthy poll or a
healthy bake (`Unready`).

`OverlapLeavesServiceWhole` is `OverlappingDeploysLeaveServiceWhole`, for any
number of deploys where the run has two, and under all faults. The calls of
deploys that overlap overwrite each other, so nothing can be said of what one of
them has left. `Debts` says instead that a Deployment whose count is not one at
rest is owed a call by some deploy: one that has begun the step that disturbs the
count and has not made, in an attempt that still counts, the call that brings it
back (`Owes`), or one with a fault. `DebtBegins` is the call that takes a
Deployment from rest; `DebtStays` shows that a deploy stops owing only by making
the call that puts it at rest; `NothingOwed` that a deploy that has ended without
a failed step owes nothing.

`RefinementProofs`: `DeployImplementsContract` is `ImplementsContract`, for any
number of deploys that have different services and deploy an image other than
the first one (`Apart`). The mapping needs both: a service is "old" or "new" for
one deploy, and told apart by its image. `StageFacts`, `ImageFacts` and
`ServiceFacts` read the abstract state off the invariants above (`Known`).
`TaskStep` maps a workflow task, `CallStep` a call, `OtherStep` what is neither,
to a step of the contract of the deploy that moves or to a stutter; `Bystander`
and `AttemptFrame` show that the others do not move, and `OneMoves` and
`NoneMoves` put this together for the whole set.

`ReplicaSplitProofs`: `SplitNearest` and `SplitConserves` for every target and
every weight from 0 to 100, where the run stops at a target of 12. `ShareBounds`
has the arithmetic.

`ReleaseProofs`, for every list of entries and every set of services:
`TypeCorrect`, `ReportIsTrue`, `FailureSurfaces`, `WholeServices` and
`ServicesApart` are the type invariant and the four safety properties of the run
`release`. None of the four is inductive. `IInv` adds

- `FanOut`: a child that was refused or is not on the list is never started, so
  that a service has one owner among the children (`OneOwner`);
- `Untouched`: a service is old until its owner is past its policy gate;
- `Ended`: how a child ended says what its service is, unless it was faulty;
- `Gathered`: a result that says Promoted is true of its child, and without
  cancellation it is gathered from a child that has ended;
- `Lists`: the two lists name the services of what was gathered (`ListsGrow`).

`OutcomesApart` follows from `FailureSurfaces`: where no entry is refused, every
entry owns its service.

`ChildEffect` says that a step of the contract changes one child and only its
own service; `ChildSteps`, `OrchestratorSteps` and `TerminationSteps` use it for
the invariant's parts.

`AuditLogProofs`, for any number of attempts, of executions at a time and of
failed insertions: `TypeCorrect`, `ResultsAreOnRecord`, `DecisionsComeFirst` and
`TrailOnlyGrows`. The first three follow from `IInv`, which adds

- `Dispatching`: an attempt is executed once, and rows are only of attempts that
  were dispatched, so that the row of a new attempt is never ignored as a
  duplicate, and no row of the promotion precedes its dispatch;
- `Progress(x)`: what an execution has left in the trail where it stands;
- `Approval`: the worker polls with a default store only, and an execution of
  `RecordApproval` that succeeds has written the decision.

`RecordEffect` says what an insertion does to the table and the lemmas after it
what survives a table that grows; `ExecutionHolds` reduces a step of an execution
to what it says of that execution, `ServerMoves` a step of the server to what it
takes for a result. `TrailOnlyGrows` is the action property, from the same
invariant.

Only model-checked: the liveness properties `EveryDeployCloses` and
`EveryReleaseEnds` (out of the prover's reach, like `ENABLED`), and
`FailedStepContained`, as `Effects` speaks of deploys without a fault. Every other
invariant and action property of the passing runs is stated by a theorem, and so is the
refinement. The contract of a deploy that shares its service, or deploys again
the image that runs there, is stated nowhere. The runs that expect a violation are about statements that
are false.

## Plan

1. Done: `ReplicaSplit`, `Cluster`, `CanaryDeploy`, `DeployContract` and the
   refinement, `Release`, `AuditLog`, their runs; the theorems above.
2. Done: the invariants on the calls made so far, the refinement's steps, and
   deploys that overlap. Next: a proof of what a
   rollback with a failed step still guarantees, a specification of the trail that `AuditLog` implements.
3. Cancellation at the gate told apart from the timeout, with the decision the
   trail then lacks; readiness of stable's pods during the shift.

## Not modelled

- `HelloWorkflow`, configuration, metrics, scripts and manifests other than the
  sample application's two Deployments: they hold no state of the deploy.
- Identifiers taken from the clock (`cmd/starter`): two starts within one second
  share one. This is a matter of time and of the server's start semantics.
- Timestamps, actors and details of the trail; the narrowing of counts to
  `int32`; durations, and with them whether a long bake fits its timeout.
- Readiness of stable's pods: the code never reads it.
