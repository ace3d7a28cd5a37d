--------------------------- MODULE DeployContract ---------------------------
(***************************************************************************)
(* What one canary deploy (CanaryDeployWorkflow) promises to whoever       *)
(* starts it, without its activities, retries, saga and worker.            *)
(*                                                                         *)
(* A deploy first changes nothing; then it changes its service, and either *)
(* ends Promoted with the service new, or undoes what it did and ends with *)
(* the service old again: its old image, no canary, and replicas that may  *)
(* be those the deploy asked for.  The second promise is void once a mutating step *)
(* or an inverse of it has failed or was cancelled: such a deploy is       *)
(* faulty, and calls of it may even land when it is closed.                *)
(***************************************************************************)
CONSTANTS Deploys, Services, ServiceOf

ASSUME ContractAssumption == ServiceOf \in [Deploys -> Services]

VARIABLES
  stage,      \* stage[d]: how far deploy d is, or how it ended
  service,    \* service[s]: what s runs, to the deploy in progress
  faulty      \* faulty[d]: a step of d or an inverse failed or was cancelled

contractVars == <<stage, service, faulty>>

Refusals == {"PolicyRejected", "Failed", "Canceled"}
Rollbacks == {"RolledBack", "TimedOut"}
Open == {"checking", "changing", "undoing"}
States == {"old", "mixed", "new"}

ContractInit ==
  /\ stage = [d \in Deploys |-> "idle"]
  /\ service = [s \in Services |-> "old"]
  /\ faulty = [d \in Deploys |-> FALSE]

Moves(d, from, to) ==
  /\ stage[d] = from
  /\ stage' = [stage EXCEPT ![d] = to]

Serves(d, st) == service[ServiceOf[d]] = st

Sets(d, sts) == \E st \in sts : service' = [service EXCEPT ![ServiceOf[d]] = st]

Begin(d) == Moves(d, "idle", "checking") /\ UNCHANGED <<service, faulty>>

Admit(d) == Moves(d, "checking", "changing") /\ UNCHANGED <<service, faulty>>

\* Nothing has been changed.
Refuse(d) ==
  /\ \E how \in Refusals : Moves(d, "checking", how)
  /\ UNCHANGED <<service, faulty>>

\* Once the service is new it stays so.
Change(d) ==
  /\ stage[d] = "changing"
  /\ ~Serves(d, "new")
  /\ Sets(d, States)
  /\ UNCHANGED <<stage, faulty>>

Fault(d) ==
  /\ stage[d] \in {"changing", "undoing"}
  /\ faulty' = [faulty EXCEPT ![d] = TRUE]
  /\ Sets(d, States)
  /\ UNCHANGED stage

Promote(d) ==
  /\ ~faulty[d]
  /\ Serves(d, "new")
  /\ Moves(d, "changing", "Promoted")
  /\ UNCHANGED <<service, faulty>>

\* A service that is new is undone only if the deploy is faulty.
Undo(d) ==
  /\ ~Serves(d, "new") \/ faulty[d]
  /\ Moves(d, "changing", "undoing")
  /\ UNCHANGED <<service, faulty>>

\* A service that is old again stays so.
Revert(d) ==
  /\ stage[d] = "undoing"
  /\ Serves(d, "mixed")
  /\ Sets(d, {"mixed", "old"})
  /\ UNCHANGED <<stage, faulty>>

RollBack(d) ==
  /\ Serves(d, "old") \/ faulty[d]
  /\ \E how \in Rollbacks : Moves(d, "undoing", how)
  /\ UNCHANGED <<service, faulty>>

\* Calls of a faulty deploy: its compensations, or a cancelled step going on.
Straggle(d) ==
  /\ faulty[d]
  /\ stage[d] \in {"changing", "undoing"} \cup Rollbacks
  /\ Sets(d, States)
  /\ UNCHANGED <<stage, faulty>>

DeployStep(d) ==
  \/ Admit(d)
  \/ Refuse(d)
  \/ Change(d)
  \/ Fault(d)
  \/ Promote(d)
  \/ Undo(d)
  \/ Revert(d)
  \/ RollBack(d)
  \/ Straggle(d)

ContractNext == \E d \in Deploys : Begin(d) \/ DeployStep(d)

ContractSpec == ContractInit /\ [][ContractNext]_contractVars
=============================================================================
