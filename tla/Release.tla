------------------------------- MODULE Release -------------------------------
(***************************************************************************)
(* ReleaseOrchestratorWorkflow (workflows/orchestrator.go): one child      *)
(* deploy for each entry of a list of services, each of them taken to keep *)
(* DeployContract, which CanaryDeploy implements.  The orchestrator starts *)
(* all children, waits for one after the other, and aggregates.  It can be *)
(* cancelled or terminated at any time; when it closes, the server         *)
(* terminates the children that are still open.                            *)
(***************************************************************************)
EXTENDS DeployContract, Naturals, Sequences

CONSTANT Length    \* bound: entries of the list, Deploys being 1..Length

ASSUME ReleaseAssumption == Length \in Nat /\ Deploys = 1..Length

VARIABLES
  release,    \* how far the orchestrator is, or how it was closed
  size,       \* the number of entries of the list it was started with
  refused,    \* the entries whose child could not be started
  results,    \* the statuses gathered so far, in the order of the list
  promoted,   \* ReleaseResult.Promoted, as the set of the services it names
  notPromoted,  \* ReleaseResult.NotPromoted, likewise
  cancelled,  \* whether cancellation of the orchestrator was requested
  late        \* the terminated children with an attempt that still runs

report == <<results, promoted, notPromoted>>
orchestratorVars == <<release, size, refused, report, cancelled>>
vars == <<contractVars, orchestratorVars, late>>

Outcomes == Refusals \cup Rollbacks \cup {"Promoted", "Terminated"}

TypeOK ==
  /\ stage \in [Deploys -> {"idle"} \cup Open \cup Outcomes]
  /\ service \in [Services -> States]
  /\ faulty \in [Deploys -> BOOLEAN]
  /\ release \in {"idle", "running", "Completed", "Terminated"}
  /\ size \in 0..Length
  /\ refused \subseteq 1..size
  /\ results \in Seq({"PolicyRejected", "Promoted"} \cup Rollbacks)
  /\ Len(results) <= size
  /\ promoted \subseteq Services
  /\ notPromoted \subseteq Services
  /\ cancelled \in BOOLEAN
  /\ late \subseteq Deploys

Init ==
  /\ ContractInit
  /\ release = "idle"
  /\ size = 0
  /\ refused = {}
  /\ results = <<>>
  /\ promoted = {}
  /\ notPromoted = {}
  /\ cancelled = FALSE
  /\ late = {}

Listed == 1..size

-----------------------------------------------------------------------------
(* The orchestrator.                                                       *)

\* Mutant: the child's identifier tells entries apart, not services.
DistinctIDs(n) == {}

\* The child's identifier is made of the release's and the service's name: a
\* second child for a service is refused while the first one is open.
Duplicates(n) ==
  {i \in 1..n : \E j \in 1..(i - 1) : ServiceOf[j] = ServiceOf[i]}

\* All children are requested in the first workflow task.  The starter skips
\* empty names: the list may be empty.
StartRelease ==
  /\ release = "idle"
  /\ release' = "running"
  /\ size' \in 0..Length
  /\ refused' = Duplicates(size')
  /\ UNCHANGED <<contractVars, report, cancelled, late>>

\* Mutant: the future of a child that was refused is never resolved.
OnlyClosed(i) == stage[i] \in Outcomes \/ cancelled

\* The child's future is resolved: the child closed or was refused.  That of a
\* cancelled orchestrator may fail without the child (WaitForCancellation unset).
Resolved(i) == stage[i] \in Outcomes \/ i \in refused \/ cancelled

\* Mutant: an error of the child is not given a status of a deploy.
RawOutcome(i) == stage[i]

\* What the fan-in makes of it; an error counts as RolledBack.
Outcome(i) ==
  IF stage[i] \in {"Promoted", "PolicyRejected"} \cup Rollbacks
  THEN stage[i] ELSE "RolledBack"

\* One turn of the fan-in: the entry's service goes to one of the two lists.
Gather ==
  LET i == Len(results) + 1
  IN  /\ release = "running"
      /\ i \in Listed
      /\ Resolved(i)
      /\ \E st \in {Outcome(i)} \cup (IF cancelled THEN {"RolledBack"} ELSE {}) :
           /\ results' = Append(results, st)
           /\ IF st = "Promoted"
              THEN promoted' = promoted \cup {ServiceOf[i]} /\ UNCHANGED notPromoted
              ELSE notPromoted' = notPromoted \cup {ServiceOf[i]} /\ UNCHANGED promoted
      /\ UNCHANGED <<contractVars, release, size, refused, cancelled, late>>

\* Mutant: the first entry that is not promoted aborts the release.
FailFast ==
  \/ Len(results) = size
  \/ \E k \in DOMAIN results : results[k] # "Promoted"

GatheredAll == Len(results) = size

Complete ==
  /\ release = "running"
  /\ GatheredAll
  /\ release' = "Completed"
  /\ UNCHANGED <<contractVars, size, refused, report, cancelled, late>>

\* Mutant: one promoted entry is enough.
AnyPromoted == promoted # {}

\* ReleaseResult.AllPromoted: NotPromoted is empty.
AllPromoted == notPromoted = {}

-----------------------------------------------------------------------------
(* The children and the server.                                            *)

\* A child whose parent has closed is not started any more.
StartChild(i) ==
  /\ release = "running"
  /\ i \in Listed \ refused
  /\ Begin(i)
  /\ UNCHANGED <<orchestratorVars, late>>

ChildStep(i) == DeployStep(i) /\ UNCHANGED <<orchestratorVars, late>>

\* The ParentClosePolicy, carried out some time after the parent has closed.  The
\* attempt of a step or of an inverse that the child was waiting for may go on.
TerminateChild(i) ==
  /\ release \in {"Completed", "Terminated"}
  /\ \/ Moves(i, "checking", "Terminated") /\ UNCHANGED late
     \/ /\ \E from \in {"changing", "undoing"} : Moves(i, from, "Terminated")
        /\ late' \in {late, late \cup {i}}
  /\ UNCHANGED <<service, faulty, orchestratorVars>>

LateCall(i) ==
  /\ i \in late
  /\ Sets(i, States)
  /\ UNCHANGED <<stage, faulty, orchestratorVars, late>>

LateStops(i) ==
  /\ i \in late
  /\ late' = late \ {i}
  /\ UNCHANGED <<contractVars, orchestratorVars>>

Cancel ==
  /\ release = "running"
  /\ ~cancelled
  /\ cancelled' = TRUE
  /\ UNCHANGED <<contractVars, release, size, refused, report, late>>

Terminate ==
  /\ release = "running"
  /\ release' = "Terminated"
  /\ UNCHANGED <<contractVars, size, refused, report, cancelled, late>>

Next ==
  \/ StartRelease
  \/ Gather
  \/ Complete
  \/ \E i \in Deploys : \/ StartChild(i)
                        \/ ChildStep(i)
                        \/ TerminateChild(i)
                        \/ LateCall(i)
                        \/ LateStops(i)
  \/ Cancel
  \/ Terminate

Spec == Init /\ [][Next]_vars

(***************************************************************************)
(* A worker is up often enough to take the orchestrator and its children   *)
(* further.  That a deploy gets to its next stage is EveryDeployCloses.    *)
(***************************************************************************)
NextStage(i) ==
  /\ Admit(i) \/ Refuse(i) \/ Promote(i) \/ Undo(i) \/ RollBack(i)
  /\ UNCHANGED <<orchestratorVars, late>>

Reverts(i) == Revert(i) /\ UNCHANGED <<orchestratorVars, late>>

Fairness ==
  /\ WF_vars(Gather)
  /\ WF_vars(Complete)
  /\ \A i \in Deploys : WF_vars(StartChild(i)) /\ WF_vars(NextStage(i)) /\ WF_vars(Reverts(i))

FairSpec == Spec /\ Fairness

-----------------------------------------------------------------------------
(* Properties.                                                             *)

\* A release that says AllPromoted has every service of its list at the new
\* image and count, whatever was cancelled on the way.
AllPromotedIsTrue ==
  release = "Completed" /\ AllPromoted =>
    \A i \in Listed : service[ServiceOf[i]] = "new"

\* A release that was not cancelled has waited for every deploy of its list.  It
\* names as promoted the services that had a deploy promoted, no more and no
\* fewer, and as not promoted those with an entry that was not: a child that
\* fails or cannot start is not left out, and hides no other.  A service listed
\* twice, whose second entry was refused, is thus in both lists if it promoted.
PartialFailureSurfaced ==
  release = "Completed" /\ ~cancelled =>
    /\ \A i \in Listed : i \in refused \/ stage[i] \in Outcomes
    /\ promoted = {ServiceOf[i] : i \in {j \in Listed : stage[j] = "Promoted"}}
    /\ notPromoted = {ServiceOf[i] : i \in {j \in Listed : stage[j] # "Promoted"}}

\* A release that was neither cancelled nor terminated leaves every service
\* either new or old, but for deploys that had a step fail.
NoHalfDeploy ==
  release = "Completed" /\ ~cancelled =>
    \A i \in Listed \ refused : faulty[i] \/ service[ServiceOf[i]] # "mixed"

\* Children of one release never deploy the same service at the same time.
OneDeployPerService ==
  \A i, j \in Deploys :
    stage[i] \in Open /\ stage[j] \in Open /\ ServiceOf[i] = ServiceOf[j] => i = j

\* README.md has termination of the orchestrator stop the children "rather than
\* leaving orphaned half-deploys".
TerminatedLeavesNoHalfDeploy ==
  release = "Terminated" /\ late = {} /\ (\A i \in Listed : stage[i] \notin Open) =>
    \A i \in Listed \ refused : faulty[i] \/ service[ServiceOf[i]] # "mixed"

\* A release that is started ends, if its deploys do: a duplicate, a child that
\* fails, an empty list or a cancellation do not leave it waiting.
EveryReleaseEnds == release = "running" ~> release \in {"Completed", "Terminated"}
=============================================================================
