-------------------------- MODULE CanaryRefinement --------------------------
(***************************************************************************)
(* CanaryDeploy implements DeployContract.  A deploy is taken to be alone  *)
(* on its service, so that the execution stands for the service as well.   *)
(***************************************************************************)
EXTENDS CanaryDeploy

\* What the service of w runs, seen from w.  It is old with either of the counts a
\* rollback leaves stable with: the first one, or the one w asks for.
ServiceState(w) ==
  LET s == input[w].Service
      retired == replicas[canaryName(s)] = 0
      stable == replicas[stableName(s)]
  IN  IF /\ retired
         /\ image[stableName(s)] = InitialImage
         /\ stable \in {BaseReplicas, AtLeastOne(input[w].TargetReplicas)}
      THEN "old"
      ELSE IF /\ retired
              /\ image[stableName(s)] = input[w].ImageTag
              /\ stable = input[w].TargetReplicas
           THEN "new" ELSE "mixed"

Stage(w) ==
  IF pc[w] = "Completed" THEN status[w]
  ELSE IF pc[w] \in Closed THEN pc[w]
  ELSE IF pc[w] = "Idle" THEN "idle"
  ELSE IF status[w] = "PolicyRejected" THEN "checking"
  ELSE IF status[w] # "none" THEN "undoing"
  ELSE IF activity[w]["PolicyCheck"] = "ok" THEN "changing" ELSE "checking"

\* A mutating step that has calls, or an inverse, failed or was cancelled.
Faulty(w) ==
  \/ \E a \in Mutating : /\ activity[w][a] \in {"error", "canceled"}
                         /\ Calls(a, input[w]) # <<>>
  \/ \E a \in Compensations : activity[w][a] = "error"

Contract == INSTANCE DeployContract WITH
  Deploys   <- Workflows,
  Services  <- Workflows,
  ServiceOf <- [w \in Workflows |-> w],
  stage     <- [w \in Workflows |-> Stage(w)],
  service   <- [w \in Workflows |-> ServiceState(w)],
  faulty    <- [w \in Workflows |-> Faulty(w)]

\* A deploy keeps its contract: it changes nothing before it is admitted, it is
\* Promoted only with its service new, and a rollback none of whose steps failed
\* takes the service back to old for good, at every call and under every fault.
ImplementsContract == Contract!ContractSpec
=============================================================================
