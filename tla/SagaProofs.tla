----------------------------- MODULE SagaProofs -----------------------------
(***************************************************************************)
(* Theorems about the saga of CanaryDeploy (workflows/saga.go): for any    *)
(* executions, inputs, faults and retry limits, a rollback runs the inverse *)
(* of every step that succeeded, and runs them last one first.             *)
(***************************************************************************)
EXTENDS CanaryDeployProofs, SequenceTheorems

-----------------------------------------------------------------------------
(* The inductive invariant: the stack against the results.                 *)

Canary == "ScaleDownCanary"
Traffic == "ShiftTrafficBack"

\* The forward step an inverse undoes.
Undone(c) == IF c = Canary THEN "ScaleCanary" ELSE "ShiftTraffic"

Stacks == {<<>>, <<Canary>>, <<Canary, Traffic>>}

Stacked(w, c) == \/ saga[w] = <<Canary, Traffic>>
                 \/ saga[w] = <<Canary>> /\ c = Canary

\* The stack while w goes forward.
ForwardStack(w) ==
  /\ pc[w] \in {"Idle", "PolicyCheck", "ScaleCanary"} => saga[w] = <<>>
  /\ pc[w] \in {"HealthCheck", "ShiftTraffic"} => saga[w] = <<Canary>>
  /\ pc[w] \in {"Gate", "RecordApproval", "Promote"} => saga[w] = <<Canary, Traffic>>

\* The stack while w unwinds: what is below the inverse that is running.
UnwindingStack(w) ==
  /\ pc[w] = Traffic => saga[w] = <<Canary>>
  /\ pc[w] = Canary => saga[w] = <<>>
  /\ pc[w] \in {"Alert", "Completed"} /\ status[w] \in {"RolledBack", "TimedOut"}
       => saga[w] = <<>>

\* Steps that were not reached have no result.
NotReached(w) ==
  /\ pc[w] \in {"Idle", "PolicyCheck"} => activity[w]["ScaleCanary"] = "none"
  /\ pc[w] \in {"Idle", "PolicyCheck", "ScaleCanary", "HealthCheck"}
       => activity[w]["ShiftTraffic"] = "none"

\* An inverse on the stack has not been run; one that has been run was not
\* cancelled, and nothing but inverses runs after it; the canary's comes last.
Inverses(w) ==
  /\ \A c \in Compensations :
       /\ Stacked(w, c) => activity[w][c] = "none"
       /\ activity[w][c] \in {"none", "ok", "error"} \cup Pending
       /\ activity[w][c] # "none" => pc[w] \in {c, Canary, "Alert"} \cup Closed
  /\ activity[w][Canary] # "none" => saga[w] = <<>>

\* The inverse of a step that succeeded is still to be run, running, or has ended.
Covered(w) ==
  \A c \in Compensations :
    activity[w][Undone(c)] = "ok" /\ pc[w] # Undone(c) =>
      Stacked(w, c) \/ pc[w] = c \/ activity[w][c] \in {"ok", "error"}

SagaOrderOf(w) ==
  /\ saga[w] \in Stacks
  /\ ForwardStack(w)
  /\ UnwindingStack(w)
  /\ NotReached(w)
  /\ Inverses(w)
  /\ Covered(w)

SagaOrder == \A w \in Workflows : SagaOrderOf(w)

-----------------------------------------------------------------------------
(* Steps that are no workflow task.                                        *)

\* The calls of an inverse are writes: none is a dry run.
LEMMA InverseCalls ==
  ASSUME NEW c \in Compensations, NEW in \in CanaryInput, NEW k \in DOMAIN Calls(c, in)
  PROVE  Calls(c, in)[k].op = "scale"
<1>1. CASE c = "ScaleDownCanary"
  BY <1>1 DEF Calls, ScaleDownCanary, Scale, Call
<1>2. CASE c = "ShiftTrafficBack"
  BY <1>2 DEF Calls, ShiftTrafficBack, Scale, Call
<1> QED
  BY <1>1, <1>2 DEF Compensations

\* A failed attempt leaves its activity queued or failed.
LEMMA FailedAttempt ==
  ASSUME TypeOK, NEW w \in Workflows, FailAttempt(w)
  PROVE  \E r \in {"queued", "error"} : activity' = [activity EXCEPT ![w][pc[w]] = r]
BY DEF FailAttempt, Finish

\* An activity changes its state only while it is pending; it gets a result only
\* when it is awaited, and an inverse only one of two.
LEMMA ActivitySteps ==
  ASSUME TypeOK, [Next]_vars,
         \A w \in Workflows : ~StartWorkflow(w) /\ ~WorkflowTask(w)
  PROVE  /\ UNCHANGED <<pc, saga, status>>
         /\ \A v \in Workflows, a \in Activities :
              activity'[v][a] # activity[v][a] =>
                /\ activity[v][a] \in Pending
                /\ activity'[v][a] \in Pending \cup Results
                /\ a \in Compensations => activity'[v][a] \in Pending \cup {"ok", "error"}
                /\ a = pc[v] \/ activity'[v][a] \in Pending
<1> DEFINE Kept == \A v \in Workflows, a \in Activities :
              activity'[v][a] # activity[v][a] =>
                /\ activity[v][a] \in Pending
                /\ activity'[v][a] \in Pending \cup Results
                /\ a \in Compensations => activity'[v][a] \in Pending \cup {"ok", "error"}
                /\ a = pc[v] \/ activity'[v][a] \in Pending
<1>1. ASSUME NEW w \in Workflows, NEW r \in Pending \cup Results,
             activity' = [activity EXCEPT ![w][pc[w]] = r],
             pc[w] \in Activities, activity[w][pc[w]] \in Pending,
             pc[w] \in Compensations => r \in Pending \cup {"ok", "error"}
      PROVE  Kept
  BY <1>1 DEF TypeOK, AttemptTypeOK
<1>2. ASSUME NEW w \in Workflows, Attempt(w)
      PROVE  UNCHANGED <<pc, saga, status>> /\ Kept
  <2>1. UNCHANGED <<pc, saga, status>>
    BY <1>2 DEF Attempt, StartAttempt, CallSucceeds, CallFails, ReplyLost, ActivityReturns,
       AttemptTimesOut, CancelActivity, ZombieCall, ZombieStops, attemptFrame,
       zombieFrame, flowVars
  <2> SUFFICES Kept
    BY <2>1
  <2>2. CASE UNCHANGED activity
    BY <2>2
  <2>3. CASE StartAttempt(w)
    BY <1>1, <2>3 DEF StartAttempt, IsAt, Pending
  <2>4. CASE FailAttempt(w) /\ (CallFails(w) \/ ReplyLost(w) \/ ActivityReturns(w)
                                \/ AttemptTimesOut(w))
    <3>1. pc[w] \in Activities /\ activity[w][pc[w]] \in Pending
      BY <2>4 DEF CallFails, ReplyLost, ActivityReturns, AttemptTimesOut, Calling, IsAt,
         Pending
    <3>2. PICK r \in {"queued", "error"} : activity' = [activity EXCEPT ![w][pc[w]] = r]
      BY <2>4, FailedAttempt
    <3> QED
      BY <1>1, <3>1, <3>2 DEF Pending, Results
  <2>5. CASE CallFails(w) /\ Finish(w, "rejected") /\ NextCall(w).op = "dryRun"
    <3>1. pc[w] \in Activities /\ activity[w][pc[w]] \in Pending
      BY <2>5 DEF CallFails, Calling, IsAt, Pending
    <3>2. pc[w] \notin Compensations
      BY <2>5, InverseCalls, CanaryAssumption DEF CallFails, Calling, NextCall, TypeOK
    <3> QED
      BY <1>1, <2>5, <3>1, <3>2 DEF Finish, Results
  <2>6. CASE ActivityReturns(w) /\ ~FailAttempt(w)
    <3>1. pc[w] \in Activities /\ activity[w][pc[w]] \in Pending
      BY <2>6 DEF ActivityReturns, IsAt, Pending
    <3>2. PICK r \in {"ok", "rejected", "unhealthy"} :
            /\ Finish(w, r)
            /\ pc[w] \in {"PolicyCheck", "HealthCheck"} \/ r = "ok"
      BY <2>6 DEF ActivityReturns
    <3> QED
      BY <1>1, <3>1, <3>2 DEF Finish, Results, Compensations
  <2>7. CASE CancelActivity(w)
    BY <1>1, <2>7 DEF CancelActivity, Finish, Results, Connected, Forward, Compensations,
       Activities
  <2> QED
    BY <1>2, <2>2, <2>3, <2>4, <2>5, <2>6, <2>7
       DEF Attempt, CallSucceeds, CallFails, ReplyLost, AttemptTimesOut, ZombieCall,
           ZombieStops, zombieFrame, attemptFrame
<1>3. ASSUME NEW w \in Workflows, Approve(w) \/ Cancel(w)
      PROVE  UNCHANGED <<pc, saga, status>> /\ Kept
  BY <1>3 DEF Approve, Cancel, flowVars
<1>4. CASE BuildClient \/ Restart \/ PodChange \/ UNCHANGED vars
  BY <1>4 DEF BuildClient, Restart, PodChange, workerFrame, vars, flowVars
<1>5. CASE Crash
  BY <1>5 DEF Crash, workerFrame, flowVars, Pending
<1> QED
  BY <1>2, <1>3, <1>4, <1>5 DEF Next

\* Such a step keeps the invariant.
LEMMA OtherStepsKeepSaga ==
  ASSUME TypeOK, SagaOrder, [Next]_vars,
         \A w \in Workflows : ~StartWorkflow(w) /\ ~WorkflowTask(w)
  PROVE  SagaOrder'
<1> SUFFICES ASSUME NEW v \in Workflows PROVE SagaOrderOf(v)'
  BY DEF SagaOrder
<1>1. SagaOrderOf(v) /\ UNCHANGED <<pc, saga, status>>
  BY ActivitySteps DEF SagaOrder
<1>2. ASSUME NEW a \in Activities, activity'[v][a] # activity[v][a]
      PROVE  /\ activity[v][a] \in Pending
             /\ a \in Compensations => activity'[v][a] \in Pending \cup {"ok", "error"}
             /\ a = pc[v] \/ activity'[v][a] \in Pending
  BY <1>2, ActivitySteps
<1>3. Compensations \subseteq Activities /\ {"ScaleCanary", "ShiftTraffic"} \subseteq Activities
  BY DEF Activities, Forward
<1>4. ForwardStack(v)' /\ UnwindingStack(v)'
  BY <1>1 DEF SagaOrderOf, ForwardStack, UnwindingStack
<1>5. NotReached(v)'
  BY <1>1, <1>2, <1>3 DEF SagaOrderOf, NotReached, Pending
<1>6. Inverses(v)'
  BY <1>1, <1>2, <1>3 DEF SagaOrderOf, Inverses, Stacked, Pending, Compensations, Canary
<1>7. Covered(v)'
  <2> SUFFICES ASSUME NEW c \in Compensations, activity'[v][Undone(c)] = "ok",
                      pc[v] # Undone(c), ~Stacked(v, c), pc[v] # c
               PROVE  activity'[v][c] \in {"ok", "error"}
    BY <1>1 DEF Covered, Stacked
  <2>1. activity[v][Undone(c)] = "ok"
    BY <1>2, <1>3 DEF Undone, Pending
  <2>2. activity[v][c] \in {"ok", "error"}
    BY <1>1, <2>1 DEF SagaOrderOf, Covered
  <2> QED
    BY <1>2, <1>3, <2>2 DEF Pending
<1> QED
  BY <1>1, <1>4, <1>5, <1>6, <1>7 DEF SagaOrderOf

-----------------------------------------------------------------------------
(* Workflow tasks.                                                         *)

\* A workflow task leaves the stack and the status of other executions alone.
LEMMA SagaFrame ==
  ASSUME TypeOK, NEW w \in Workflows, StartWorkflow(w) \/ WorkflowTask(w),
         NEW v \in Workflows \ {w}
  PROVE  saga'[v] = saga[v] /\ status'[v] = status[v]
<1>1. compensate(w) => saga'[v] = saga[v]
  BY DEF compensate, TypeOK
<1> QED
  BY <1>1 DEF StartWorkflow, WorkflowTask, AfterPolicyCheck, AfterScaleCanary,
     AfterHealthCheck, AfterShiftTraffic, ReceiveApproval, ApprovalTimeout,
     AfterRecordApproval, AfterPromote, AfterCompensation, AfterAlert, unwind,
     register, TypeOK

\* Scheduling an activity leaves the others; an inverse is never cancelled.
LEMMA ScheduleEffect ==
  ASSUME TypeOK, NEW w \in Workflows, NEW a \in Activities, Schedule(w, a)
  PROVE  /\ pc'[w] = a
         /\ \A b \in Activities \ {a} : activity'[w][b] = activity[w][b]
         /\ activity'[w][a] \in {"queued", "canceled"}
         /\ a \in Compensations => activity'[w][a] = "queued"
BY DEF Schedule, TypeOK, AttemptTypeOK, Connected, Forward, Compensations

\* Popping one of two entries leaves the other.
LEMMA PopOfTwo ==
  ASSUME NEW x, NEW y
  PROVE  SubSeq(<<x, y>>, 1, 1) = <<x>>
<1> DEFINE S == {x, y}
<1>1. <<x>> \in Seq(S) /\ <<x, y>> \in Seq(S) /\ Len(<<x>>) = 1 /\ Len(<<x, y>>) = 2
  OBVIOUS
<1>2. SubSeq(<<x, y>>, 1, 1) \in Seq(S) /\ Len(SubSeq(<<x, y>>, 1, 1)) = 1
  BY <1>1
<1>3. \A i \in 1..1 : SubSeq(<<x, y>>, 1, 1)[i] = <<x>>[i]
  BY <1>1
<1> QED
  BY <1>1, <1>2, <1>3, SeqEqual, Zenon

\* Pushing a second entry.
LEMMA PushSecond ==
  ASSUME NEW x, NEW y
  PROVE  Append(<<x>>, y) = <<x, y>>
<1> DEFINE S == {x, y}
<1>1. <<x>> \in Seq(S) /\ <<x, y>> \in Seq(S) /\ Len(<<x>>) = 1 /\ Len(<<x, y>>) = 2
  OBVIOUS
<1>2. Append(<<x>>, y) \in Seq(S) /\ Len(Append(<<x>>, y)) = 2
  BY <1>1
<1>3. \A i \in 1..2 : Append(<<x>>, y)[i] = <<x, y>>[i]
  BY <1>1
<1> QED
  BY <1>1, <1>2, <1>3, SeqEqual, Zenon

\* What register does to the two stacks a forward step can meet.
LEMMA registerEffect ==
  ASSUME TypeOK, NEW w \in Workflows, NEW a \in Compensations, register(w, a)
  PROVE  /\ saga[w] = <<>> => saga'[w] = <<a>>
         /\ saga[w] = <<Canary>> => saga'[w] = <<Canary, a>>
<1>1. saga'[w] = Append(saga[w], a)
  BY DEF register, TypeOK
<1>2. Append(<<>>, a) = <<a>> /\ Append(<<Canary>>, a) = <<Canary, a>>
  BY PushSecond
<1> QED
  BY <1>1, <1>2

\* What compensate does to each of the three stacks.
LEMMA compensateEffect ==
  ASSUME TypeOK, NEW w \in Workflows, saga[w] \in Stacks, compensate(w)
  PROVE  \/ saga[w] = <<>> /\ saga'[w] = <<>> /\ Schedule(w, "Alert")
         \/ saga[w] = <<Canary>> /\ saga'[w] = <<>> /\ Schedule(w, Canary)
         \/ /\ saga[w] = <<Canary, Traffic>> /\ saga'[w] = <<Canary>>
            /\ Schedule(w, Traffic)
<1>1. CASE saga[w] = <<>>
  BY <1>1 DEF compensate
<1>2. CASE saga[w] = <<Canary>>
  <2>1. saga[w] # <<>> /\ Len(saga[w]) = 1 /\ saga[w][1] = Canary
        /\ SubSeq(saga[w], 1, 0) = <<>>
    BY <1>2
  <2> QED
    BY <1>2, <2>1 DEF compensate, TypeOK
<1>3. CASE saga[w] = <<Canary, Traffic>>
  <2>1. saga[w] # <<>> /\ Len(saga[w]) = 2 /\ saga[w][2] = Traffic
    BY <1>3
  <2>2. SubSeq(saga[w], 1, 1) = <<Canary>>
    BY <1>3, PopOfTwo, Zenon
  <2> QED
    BY <1>3, <2>1, <2>2 DEF compensate, TypeOK
<1> QED
  BY <1>1, <1>2, <1>3 DEF Stacks

\* The stack covers every step that has succeeded by now and was not undone.
CoveredNow(w) ==
  \A c \in Compensations :
    activity[w][Undone(c)] = "ok" =>
      Stacked(w, c) \/ activity[w][c] \in {"ok", "error"}

\* Popping an inverse and running it keeps the invariant.
LEMMA compensateKeepsSaga ==
  ASSUME TypeOK, NEW w \in Workflows, SagaOrderOf(w), CoveredNow(w), compensate(w)
  PROVE  SagaOrderOf(w)'
<1> USE DEF SagaOrderOf, ForwardStack, UnwindingStack, NotReached, Inverses, Covered,
            CoveredNow, Stacked, Stacks, Undone, Compensations, Canary, Traffic, Closed
<1>1. {"ScaleCanary", "ShiftTraffic", "Alert", Canary, Traffic} \subseteq Activities
  BY DEF Activities, Forward
<1>2. CASE saga[w] = <<>> /\ saga'[w] = <<>> /\ Schedule(w, "Alert")
  <2>1. /\ pc'[w] = "Alert"
        /\ \A b \in Activities \ {"Alert"} : activity'[w][b] = activity[w][b]
    BY <1>1, <1>2, ScheduleEffect
  <2> QED
    BY <1>1, <1>2, <2>1
<1>3. CASE saga[w] = <<Canary>> /\ saga'[w] = <<>> /\ Schedule(w, Canary)
  <2>1. /\ pc'[w] = Canary /\ activity'[w][Canary] = "queued"
        /\ \A b \in Activities \ {Canary} : activity'[w][b] = activity[w][b]
    BY <1>1, <1>3, ScheduleEffect
  <2> QED
    BY <1>1, <1>3, <2>1 DEF Pending
<1>4. CASE /\ saga[w] = <<Canary, Traffic>> /\ saga'[w] = <<Canary>>
           /\ Schedule(w, Traffic)
  <2>1. /\ pc'[w] = Traffic /\ activity'[w][Traffic] = "queued"
        /\ \A b \in Activities \ {Traffic} : activity'[w][b] = activity[w][b]
    BY <1>1, <1>4, ScheduleEffect
  <2> QED
    BY <1>1, <1>4, <2>1 DEF Pending
<1> QED
  BY <1>2, <1>3, <1>4, compensateEffect

\* A task that runs a forward activity, waits, alerts or closes, with this stack.
LEMMA ForwardKeepsSaga ==
  ASSUME TypeOK, NEW w \in Workflows, SagaOrderOf(w),
         NEW a, pc'[w] = a, ForwardStack(w)', UnwindingStack(w)',
         a \in Forward \cup {"Gate", "Alert"} \cup Closed,
         \A b \in Activities \ {a} : activity'[w][b] = activity[w][b],
         a = "PolicyCheck" => activity[w]["ScaleCanary"] = "none",
         a \in {"PolicyCheck", "ScaleCanary", "HealthCheck"} =>
           activity[w]["ShiftTraffic"] = "none",
         saga'[w] \in Stacks,
         \A c \in Compensations :
           /\ Stacked(w, c)' => activity[w][c] = "none"
           /\ activity[w][Undone(c)] = "ok" =>
                Stacked(w, c)' \/ activity[w][c] \in {"ok", "error"},
         \A c \in Compensations :
           activity[w][c] # "none" => /\ saga'[w] = saga[w]
                                      /\ a \in {"Alert"} \cup Closed
  PROVE  SagaOrderOf(w)'
<1>1. {"ScaleCanary", "ShiftTraffic", Canary, Traffic} \subseteq Activities
      /\ Canary # a /\ Traffic # a /\ Compensations = {Canary, Traffic}
  BY DEF Activities, Forward, Compensations, Canary, Traffic, Closed
<1>2. NotReached(w)'
  BY <1>1 DEF NotReached, Forward, Closed
<1>3. Inverses(w)'
  BY <1>1 DEF SagaOrderOf, Inverses, Stacked
<1>4. Covered(w)'
  BY <1>1 DEF Covered, Undone, Stacked, Canary
<1> QED
  BY <1>2, <1>3, <1>4 DEF SagaOrderOf

\* When w resumes, the stack covers every step that has succeeded, unless it
\* resumes from a step that succeeded just now.
LEMMA CoveredAtTask ==
  ASSUME TypeOK, NEW w \in Workflows, SagaOrderOf(w),
         pc[w] \in Activities => activity[w][pc[w]] \in Results,
         pc[w] \in {"ScaleCanary", "ShiftTraffic"} => activity[w][pc[w]] # "ok"
  PROVE  CoveredNow(w)
<1> SUFFICES ASSUME NEW c \in Compensations, activity[w][Undone(c)] = "ok"
             PROVE  Stacked(w, c) \/ activity[w][c] \in {"ok", "error"}
  BY DEF CoveredNow
<1>1. pc[w] # Undone(c)
  BY DEF Undone
<1>2. pc[w] = c => activity[w][c] \in {"ok", "error"}
  BY DEF SagaOrderOf, Inverses, Activities, Pending, Results
<1> QED
  BY <1>1, <1>2 DEF SagaOrderOf, Covered

\* A workflow task keeps the invariant of its execution: one case per task.
LEMMA TaskKeepsSaga ==
  ASSUME TypeOK, NEW w \in Workflows, SagaOrderOf(w),
         StartWorkflow(w) \/ WorkflowTask(w)
  PROVE  SagaOrderOf(w)'
<1> DEFINE Forwards == Forward \cup {"Idle", "Gate"}
<1>1. pc[w] \in Forwards => \A c \in Compensations : activity[w][c] = "none"
  BY DEF SagaOrderOf, Inverses, Forward, Compensations, Canary, Closed
<1>2. CASE StartWorkflow(w)
  <2>1. pc[w] = "Idle" /\ saga[w] = <<>> /\ NotReached(w) /\ UNCHANGED saga
    BY <1>2 DEF StartWorkflow, SagaOrderOf, ForwardStack
  <2>2. CoveredNow(w)
    BY <2>1, CoveredAtTask DEF Activities, Forward, Compensations
  <2>3. /\ pc'[w] = "PolicyCheck"
        /\ \A b \in Activities \ {"PolicyCheck"} : activity'[w][b] = activity[w][b]
    <3>1. Schedule(w, "PolicyCheck") /\ "PolicyCheck" \in Activities
      BY <1>2 DEF StartWorkflow, Proceed, Activities, Forward
    <3> QED
      BY <3>1, ScheduleEffect
  <2>4. ForwardStack(w)' /\ UnwindingStack(w)'
    BY <2>1, <2>3 DEF ForwardStack, UnwindingStack, Canary, Traffic
  <2> QED
    BY <1>1, <2>1, <2>2, <2>3, <2>4, ForwardKeepsSaga
       DEF Forward, NotReached, CoveredNow, Stacked, Stacks
<1>3. ASSUME \E st : unwind(w, st), CoveredNow(w)
      PROVE  SagaOrderOf(w)'
  BY <1>3, compensateKeepsSaga DEF unwind
<1>4. ASSUME NEW a \in {"RecordApproval", "Promote"}, Schedule(w, a), UNCHANGED saga,
             pc[w] \in {"Gate", "RecordApproval"}, CoveredNow(w)
      PROVE  SagaOrderOf(w)'
  <2>1. saga[w] = <<Canary, Traffic>> /\ \A c \in Compensations : activity[w][c] = "none"
    BY <1>1, <1>4 DEF SagaOrderOf, ForwardStack, Forward
  <2>2. pc'[w] = a /\ \A b \in Activities \ {a} : activity'[w][b] = activity[w][b]
    BY <1>4, ScheduleEffect DEF Activities, Forward
  <2>3. ForwardStack(w)' /\ UnwindingStack(w)'
    BY <1>4, <2>1, <2>2 DEF ForwardStack, UnwindingStack, Canary, Traffic
  <2> QED
    BY <1>4, <2>1, <2>2, <2>3, ForwardKeepsSaga
       DEF Forward, CoveredNow, Stacked, Stacks
<1>5. CASE AfterPolicyCheck(w)
  <2>1. pc[w] = "PolicyCheck" /\ saga[w] = <<>> /\ UNCHANGED saga
        /\ activity[w]["PolicyCheck"] \in Results
    BY <1>5 DEF AfterPolicyCheck, Resumes, SagaOrderOf, ForwardStack, Results
  <2>2. CoveredNow(w)
    BY <2>1, CoveredAtTask
  <2>3. /\ activity[w]["ScaleCanary"] = "none" /\ activity[w]["ShiftTraffic"] = "none"
        /\ \A c \in Compensations : activity[w][c] = "none"
    BY <1>1, <2>1 DEF SagaOrderOf, NotReached, Forward
  <2>4. PICK a \in {"ScaleCanary", "Alert"} \cup Closed :
          /\ pc'[w] = a
          /\ \A b \in Activities \ {a} : activity'[w][b] = activity[w][b]
    <3>1. CASE \E a \in {"ScaleCanary", "Alert"} : Schedule(w, a)
      BY <3>1, ScheduleEffect DEF Activities, Forward
    <3>2. CASE \E how \in {"Failed", "Canceled"} : Close(w, how)
      BY <3>2, CloseControl DEF Closed
    <3> QED
      BY <1>5, <3>1, <3>2 DEF AfterPolicyCheck, Proceed
  <2>5. ForwardStack(w)' /\ UnwindingStack(w)'
    BY <2>1, <2>4 DEF ForwardStack, UnwindingStack, Canary, Traffic, Closed
  <2> QED
    BY <2>1, <2>2, <2>3, <2>4, <2>5, ForwardKeepsSaga
       DEF Forward, CoveredNow, Stacked, Stacks
<1>6. CASE AfterScaleCanary(w)
  <2>1. pc[w] = "ScaleCanary" /\ saga[w] = <<>>
    BY <1>6 DEF AfterScaleCanary, Resumes, SagaOrderOf, ForwardStack
  <2>2. CASE unwind(w, "RolledBack") /\ activity[w]["ScaleCanary"] \in {"error", "canceled"}
    BY <1>3, <2>1, <2>2, CoveredAtTask DEF Results
  <2>3. CASE /\ register(w, "ScaleDownCanary")
             /\ Proceed(w, "health-bake", "HealthCheck")
    <3>1. /\ pc'[w] = "HealthCheck" /\ saga'[w] = <<Canary>>
          /\ \A b \in Activities \ {"HealthCheck"} : activity'[w][b] = activity[w][b]
      BY <2>1, <2>3, ScheduleEffect, registerEffect
         DEF Proceed, Activities, Forward, Compensations, Canary
    <3>2. activity[w]["ShiftTraffic"] = "none" /\ \A c \in Compensations : activity[w][c] = "none"
      BY <1>1, <2>1 DEF SagaOrderOf, NotReached, Forward
    <3>3. ForwardStack(w)' /\ UnwindingStack(w)'
      BY <3>1 DEF ForwardStack, UnwindingStack, Canary, Traffic
    <3> QED
      BY <2>1, <3>1, <3>2, <3>3, ForwardKeepsSaga
         DEF Forward, Stacked, Stacks, Undone, Compensations, Canary
  <2> QED
    BY <1>6, <2>2, <2>3 DEF AfterScaleCanary, Resumes
<1>7. CASE AfterHealthCheck(w)
  <2>1. pc[w] = "HealthCheck" /\ saga[w] = <<Canary>> /\ activity[w]["HealthCheck"] \in Results
    BY <1>7 DEF AfterHealthCheck, Resumes, SagaOrderOf, ForwardStack, Results
  <2>2. CoveredNow(w)
    BY <2>1, CoveredAtTask
  <2>3. CASE Proceed(w, "shift-traffic", "ShiftTraffic") /\ UNCHANGED saga
    <3>1. /\ pc'[w] = "ShiftTraffic"
          /\ \A b \in Activities \ {"ShiftTraffic"} : activity'[w][b] = activity[w][b]
      <4>1. Schedule(w, "ShiftTraffic") /\ "ShiftTraffic" \in Activities
        BY <2>3 DEF Proceed, Activities, Forward
      <4> QED
        BY <4>1, ScheduleEffect
    <3>2. \A c \in Compensations : activity[w][c] = "none"
      BY <1>1, <2>1 DEF Forward
    <3>3. ForwardStack(w)' /\ UnwindingStack(w)'
      BY <2>1, <2>3, <3>1 DEF ForwardStack, UnwindingStack, Canary, Traffic
    <3> QED
      BY <2>1, <2>2, <2>3, <3>1, <3>2, <3>3, ForwardKeepsSaga
         DEF Forward, CoveredNow, Stacked, Stacks
  <2> QED
    BY <1>3, <1>7, <2>2, <2>3 DEF AfterHealthCheck
<1>8. CASE AfterShiftTraffic(w)
  <2>1. pc[w] = "ShiftTraffic" /\ saga[w] = <<Canary>>
    BY <1>8 DEF AfterShiftTraffic, Resumes, SagaOrderOf, ForwardStack
  <2>2. CASE unwind(w, "RolledBack") /\ activity[w]["ShiftTraffic"] \in {"error", "canceled"}
    BY <1>3, <2>1, <2>2, CoveredAtTask DEF Results
  <2>3. CASE /\ register(w, "ShiftTrafficBack")
             /\ \/ Schedule(w, "RecordApproval")
                \/ pc' = [pc EXCEPT ![w] = "Gate"] /\ UNCHANGED activity
    <3>1. saga'[w] = <<Canary, Traffic>>
      BY <2>1, <2>3, registerEffect DEF Compensations, Traffic
    <3>2. PICK a \in {"RecordApproval", "Gate"} :
            /\ pc'[w] = a
            /\ \A b \in Activities \ {a} : activity'[w][b] = activity[w][b]
      <4>1. CASE Schedule(w, "RecordApproval")
        BY <4>1, ScheduleEffect DEF Activities, Forward
      <4>2. CASE pc' = [pc EXCEPT ![w] = "Gate"] /\ UNCHANGED activity
        <5>1. pc'[w] = "Gate"
          BY <4>2 DEF TypeOK, AttemptTypeOK
        <5> QED
          BY <4>2, <5>1
      <4> QED
        BY <2>3, <4>1, <4>2
    <3>3. \A c \in Compensations : activity[w][c] = "none"
      BY <1>1, <2>1 DEF Forward
    <3>4. ForwardStack(w)' /\ UnwindingStack(w)'
      BY <3>1, <3>2 DEF ForwardStack, UnwindingStack, Canary, Traffic
    <3> QED
      BY <3>1, <3>2, <3>3, <3>4, ForwardKeepsSaga
         DEF Forward, Stacked, Stacks, Undone, Compensations, Canary, Traffic
  <2> QED
    BY <1>8, <2>2, <2>3 DEF AfterShiftTraffic, Resumes
<1>9. CASE ReceiveApproval(w) \/ ApprovalTimeout(w)
  <2>1. pc[w] = "Gate" /\ Schedule(w, "RecordApproval") /\ UNCHANGED saga
    BY <1>9 DEF ReceiveApproval, ApprovalTimeout
  <2>2. CoveredNow(w)
    BY <2>1, CoveredAtTask DEF Activities, Forward, Compensations
  <2> QED
    BY <1>4, <2>1, <2>2
<1>10. CASE AfterRecordApproval(w)
  <2>1. pc[w] = "RecordApproval" /\ activity[w]["RecordApproval"] \in Results
    BY <1>10 DEF AfterRecordApproval, Resumes
  <2>2. CoveredNow(w)
    BY <2>1, CoveredAtTask
  <2> QED
    BY <1>3, <1>4, <1>10, <2>1, <2>2 DEF AfterRecordApproval, Proceed
<1>11. CASE AfterPromote(w)
  <2>1. pc[w] = "Promote" /\ activity[w]["Promote"] \in Results
    BY <1>11 DEF AfterPromote, Resumes, Results
  <2>2. CoveredNow(w)
    BY <2>1, CoveredAtTask
  <2>3. CASE Close(w, "Completed") /\ UNCHANGED saga
             /\ status' = [status EXCEPT ![w] = "Promoted"]
    <3>1. pc'[w] = "Completed" /\ status'[w] = "Promoted" /\ UNCHANGED activity
      BY <2>3, CloseControl DEF TypeOK
    <3>2. \A c \in Compensations : activity[w][c] = "none"
      BY <1>1, <2>1 DEF Forward
    <3>3. ForwardStack(w)' /\ UnwindingStack(w)'
      BY <3>1 DEF ForwardStack, UnwindingStack, Canary, Traffic
    <3> QED
      BY <2>2, <2>3, <3>1, <3>2, <3>3, ForwardKeepsSaga
         DEF Forward, Closed, CoveredNow, Stacked, SagaOrderOf
  <2> QED
    BY <1>3, <1>11, <2>2, <2>3 DEF AfterPromote
<1>12. CASE AfterCompensation(w)
  <2>1. pc[w] \in Compensations /\ activity[w][pc[w]] \in Results
    BY <1>12 DEF AfterCompensation, Resumes
  <2>2. CoveredNow(w)
    BY <2>1, CoveredAtTask DEF Compensations
  <2> QED
    BY <1>12, <2>2, compensateKeepsSaga DEF AfterCompensation
<1>13. CASE AfterAlert(w)
  <2>1. pc[w] = "Alert" /\ activity[w]["Alert"] \in Results
    BY <1>13 DEF AfterAlert, Resumes
  <2>2. CoveredNow(w)
    BY <2>1, CoveredAtTask
  <2>3. pc'[w] = "Completed" /\ UNCHANGED <<saga, status, activity>>
    BY <1>13, CloseControl DEF AfterAlert
  <2>4. ForwardStack(w)' /\ UnwindingStack(w)'
    BY <2>1, <2>3 DEF SagaOrderOf, ForwardStack, UnwindingStack, Canary, Traffic
  <2> QED
    BY <2>1, <2>2, <2>3, <2>4, ForwardKeepsSaga
       DEF Closed, CoveredNow, Stacked, SagaOrderOf, Inverses
<1> QED
  BY <1>2, <1>5, <1>6, <1>7, <1>8, <1>9, <1>10, <1>11, <1>12, <1>13 DEF WorkflowTask

-----------------------------------------------------------------------------
(* The theorems.                                                           *)

\* The invariant holds at first and is kept by every step.
LEMMA SagaInductive == Spec => [](TypeOK /\ SagaOrder)
<1>1. Init => SagaOrder
  <2> SUFFICES ASSUME Init, NEW w \in Workflows PROVE SagaOrderOf(w)
    BY DEF SagaOrder
  <2>1. /\ pc[w] = "Idle" /\ saga[w] = <<>> /\ status[w] = "none"
        /\ \A a \in Activities : activity[w][a] = "none"
    BY DEF Init
  <2> QED
    BY <2>1 DEF SagaOrderOf, Stacks, ForwardStack, UnwindingStack, NotReached, Inverses,
       Covered, Stacked, Undone, Canary, Traffic, Activities, Forward, Compensations
<1>2. TypeOK /\ SagaOrder /\ [Next]_vars => SagaOrder'
  <2> SUFFICES ASSUME TypeOK, SagaOrder, [Next]_vars PROVE SagaOrder'
    OBVIOUS
  <2>1. ASSUME NEW w \in Workflows, StartWorkflow(w) \/ WorkflowTask(w),
               NEW v \in Workflows
        PROVE  SagaOrderOf(v)'
    <3>1. CASE v = w
      BY <2>1, <3>1, TaskKeepsSaga DEF SagaOrder
    <3>2. CASE v # w
      <4>1. /\ pc'[v] = pc[v] /\ activity'[v] = activity[v]
            /\ saga'[v] = saga[v] /\ status'[v] = status[v]
        BY <2>1, <3>2, TaskFrame, SagaFrame
      <4> QED
        BY <4>1 DEF SagaOrder, SagaOrderOf, ForwardStack, UnwindingStack, NotReached,
           Inverses, Covered, Stacked
    <3> QED
      BY <3>1, <3>2
  <2> QED
    BY <2>1, OtherStepsKeepSaga DEF SagaOrder
<1> QED
  BY <1>1, <1>2, TypeCorrect, PTL DEF Spec

\* A rollback runs the inverse of every step that succeeded, to its end, before it
\* reports (the loop of saga.compensate, reached on every unwind): see
\* EveryCompensationRuns.
THEOREM CompensationsComplete == Spec => []EveryCompensationRuns
<1>1. TypeOK /\ SagaOrder => EveryCompensationRuns
  <2> SUFFICES ASSUME TypeOK, SagaOrder, NEW w \in Workflows, RolledBack(w)
               PROVE  \A c \in Compensations :
                        activity[w][Undone(c)] = "ok" => activity[w][c] \in {"ok", "error"}
    BY DEF EveryCompensationRuns, Undone, Canary, Compensations
  <2>1. saga[w] = <<>> /\ pc[w] = "Completed"
    BY DEF SagaOrder, SagaOrderOf, UnwindingStack, RolledBack
  <2> QED
    BY <2>1 DEF SagaOrder, SagaOrderOf, Covered, Stacked, Undone, Compensations
<1> QED
  BY <1>1, SagaInductive, PTL

\* Traffic is given back before the canary is scaled down (LIFO): see
\* CompensationsReversed.
THEOREM CompensationsInReverse == Spec => []CompensationsReversed
<1>1. TypeOK /\ SagaOrder => CompensationsReversed
  <2> SUFFICES ASSUME TypeOK, SagaOrder, NEW w \in Workflows,
                      activity[w][Canary] # "none", activity[w]["ShiftTraffic"] = "ok"
               PROVE  activity[w][Traffic] \in {"ok", "error"}
    BY DEF CompensationsReversed, Canary, Traffic
  <2>1. saga[w] = <<>> /\ pc[w] \in {Canary, "Alert"} \cup Closed
    BY DEF SagaOrder, SagaOrderOf, Inverses, Compensations, Canary
  <2> QED
    BY <2>1 DEF SagaOrder, SagaOrderOf, Covered, Stacked, Undone, Compensations, Canary,
       Traffic, Closed
<1> QED
  BY <1>1, SagaInductive, PTL
=============================================================================
