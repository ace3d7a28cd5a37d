---------------------------- MODULE ReleaseProofs ----------------------------
(***************************************************************************)
(* Theorems about Release: for every list of services, of any length and   *)
(* with any repetitions, what the orchestrator reports is true of the      *)
(* cluster.  The children are only known to keep DeployContract.           *)
(***************************************************************************)
EXTENDS Release, TLAPS

-----------------------------------------------------------------------------
(* The inductive invariant, in five parts.                                 *)

\* The entries whose child is the only one of its service.
Owners == Listed \ refused

\* Until the fan-out nothing happens; then only owners have a child.  A child is
\* terminated only when the orchestrator has closed.
FanOut ==
  /\ release = "idle" => size = 0 /\ results = <<>>
  /\ refused = Duplicates(size)
  /\ \A d \in Deploys : stage[d] # "idle" => d \in Owners
  /\ \A d \in late : stage[d] = "Terminated"
  /\ release \in {"idle", "running"} => \A d \in Deploys : stage[d] # "Terminated"

\* A service nobody owns, or whose owner has not changed it yet, is old.
Untouched ==
  \A s \in Services :
    (\A d \in Owners : ServiceOf[d] = s =>
       stage[d] \in {"idle", "checking"} \cup Refusals) => service[s] = "old"

\* How a child ended, of what its service is left with.
Ended(d) ==
  /\ stage[d] = "Promoted" => Serves(d, "new")
  /\ stage[d] \in Rollbacks => Serves(d, "old") \/ faulty[d]

\* What was gathered stays true.
Gathered ==
  /\ release = "Completed" => Len(results) = size
  /\ \A k \in DOMAIN results : results[k] = "Promoted" => stage[k] = "Promoted"
  /\ ~cancelled => \A k \in DOMAIN results :
                     /\ k \in refused \/ stage[k] \in Outcomes \ {"Terminated"}
                     /\ stage[k] = "Promoted" => results[k] = "Promoted"

\* The two lists name what was gathered.
Lists ==
  /\ promoted = {ServiceOf[k] : k \in {j \in DOMAIN results : results[j] = "Promoted"}}
  /\ notPromoted = {ServiceOf[k] : k \in {j \in DOMAIN results : results[j] # "Promoted"}}

IInv ==
  /\ TypeOK
  /\ FanOut
  /\ Untouched
  /\ \A d \in Deploys : Ended(d)
  /\ Gathered
  /\ Lists

-----------------------------------------------------------------------------
(* Children.                                                               *)

\* Two owners have different services.
LEMMA OneOwner ==
  ASSUME TypeOK, FanOut, NEW i \in Owners, NEW j \in Owners,
         ServiceOf[i] = ServiceOf[j]
  PROVE  i = j
BY DEF TypeOK, FanOut, Owners, Listed, Duplicates

\* Owners are entries of the list.
LEMMA OwnersAreDeploys ==
  ASSUME TypeOK
  PROVE  Owners \subseteq Deploys /\ Listed \subseteq Deploys
BY ReleaseAssumption DEF TypeOK, Owners, Listed

\* A step of child i: what it leaves alone, and how it can end.
ChildMoves(i) ==
  /\ \A d \in Deploys \ {i} : stage'[d] = stage[d] /\ faulty'[d] = faulty[d]
  /\ \A s \in Services \ {ServiceOf[i]} : service'[s] = service[s]
  /\ stage'[i] \notin {"idle", "Terminated"}
  /\ stage[i] \in Outcomes => stage'[i] = stage[i]
  /\ stage'[i] \in {"checking"} \cup Refusals =>
       /\ stage[i] \in {"idle", "checking"}
       /\ service' = service
  /\ Ended(i)'

\* The contract's steps are such steps, and keep the types.
LEMMA ChildEffect ==
  ASSUME TypeOK, NEW i \in Deploys, Ended(i), Begin(i) \/ DeployStep(i)
  PROVE  /\ stage' \in [Deploys -> {"idle"} \cup Open \cup Outcomes]
         /\ service' \in [Services -> States]
         /\ faulty' \in [Deploys -> BOOLEAN]
         /\ ChildMoves(i)
<1> USE ContractAssumption
<1> USE DEF TypeOK, ChildMoves, Ended, Moves, Serves, Sets, Open, Outcomes, Refusals,
            Rollbacks, States
<1>1. CASE Begin(i)
  BY <1>1 DEF Begin
<1>2. CASE Admit(i)
  BY <1>2 DEF Admit
<1>3. CASE Refuse(i)
  BY <1>3 DEF Refuse
<1>4. CASE Change(i)
  BY <1>4 DEF Change
<1>5. CASE Fault(i)
  BY <1>5 DEF Fault
<1>6. CASE Promote(i)
  BY <1>6 DEF Promote
<1>7. CASE Undo(i)
  BY <1>7 DEF Undo
<1>8. CASE Revert(i)
  BY <1>8 DEF Revert
<1>9. CASE RollBack(i)
  BY <1>9 DEF RollBack
<1>10. CASE Straggle(i)
  BY <1>10 DEF Straggle
<1> QED
  BY <1>1, <1>2, <1>3, <1>4, <1>5, <1>6, <1>7, <1>8, <1>9, <1>10 DEF DeployStep

-----------------------------------------------------------------------------
(* The invariant is inductive.                                             *)

\* A release that has not been started satisfies the invariant.
LEMMA InitHolds == Init => IInv
<1> SUFFICES ASSUME Init PROVE IInv
  OBVIOUS
<1> USE ContractAssumption, ReleaseAssumption
<1>1. /\ \A d \in Deploys : stage[d] = "idle" /\ ~faulty[d]
      /\ \A s \in Services : service[s] = "old"
      /\ Listed = {} /\ results = <<>> /\ release = "idle" /\ late = {}
  BY DEF Init, ContractInit, Listed
<1>2. TypeOK
  <2>1. /\ stage \in [Deploys -> {"idle"} \cup Open \cup Outcomes]
        /\ service \in [Services -> States]
        /\ faulty \in [Deploys -> BOOLEAN]
    BY DEF Init, ContractInit, States
  <2>2. results \in Seq({"PolicyRejected", "Promoted"} \cup Rollbacks) /\ Len(results) = 0
    BY DEF Init
  <2>3. promoted \subseteq Services /\ notPromoted \subseteq Services
    BY DEF Init
  <2>4. size = 0 /\ refused \subseteq 1..size /\ size \in 0..Length
    BY DEF Init
  <2>5. /\ release \in {"idle", "running", "Completed", "Terminated"}
        /\ cancelled \in BOOLEAN /\ late \subseteq Deploys
    BY DEF Init
  <2> QED
    BY <2>1, <2>2, <2>3, <2>4, <2>5 DEF TypeOK
<1>3. FanOut
  BY <1>1 DEF Init, FanOut, Duplicates
<1>4. Untouched /\ Gathered
  BY <1>1 DEF Untouched, Gathered
<1>5. \A d \in Deploys : Ended(d)
  BY <1>1 DEF Ended, Rollbacks
<1>6. Lists
  BY <1>1 DEF Init, Lists
<1> QED
  BY <1>2, <1>3, <1>4, <1>5, <1>6 DEF IInv

\* One turn of the fan-in adds the entry's service to one of the lists.
LEMMA ListsGrow ==
  ASSUME TypeOK, Lists, Len(results) + 1 \in Listed, UNCHANGED size,
         NEW st \in {"PolicyRejected", "Promoted"} \cup Rollbacks,
         results' = Append(results, st),
         st = "Promoted" => /\ promoted' = promoted \cup {ServiceOf[Len(results) + 1]}
                            /\ notPromoted' = notPromoted,
         st # "Promoted" => /\ notPromoted' = notPromoted \cup {ServiceOf[Len(results) + 1]}
                            /\ promoted' = promoted
  PROVE  Lists' /\ promoted' \subseteq Services /\ notPromoted' \subseteq Services
<1> DEFINE i == Len(results) + 1
           Named(P) == {ServiceOf[k] : k \in P}
<1>1. /\ DOMAIN results' = DOMAIN results \cup {i}
      /\ results'[i] = st
      /\ \A k \in DOMAIN results : results'[k] = results[k] /\ k # i
  BY DEF TypeOK
<1>2. /\ {j \in DOMAIN results' : results'[j] = "Promoted"}
           = {j \in DOMAIN results : results[j] = "Promoted"}
               \cup (IF st = "Promoted" THEN {i} ELSE {})
      /\ {j \in DOMAIN results' : results'[j] # "Promoted"}
           = {j \in DOMAIN results : results[j] # "Promoted"}
               \cup (IF st = "Promoted" THEN {} ELSE {i})
  BY <1>1
<1>3. Lists'
  <2>1. CASE st = "Promoted"
    BY <1>2, <2>1 DEF Lists
  <2>2. CASE st # "Promoted"
    BY <1>2, <2>2 DEF Lists
  <2> QED
    BY <2>1, <2>2
<1>4. ServiceOf[i] \in Services
  BY OwnersAreDeploys, ContractAssumption
<1> QED
  BY <1>3, <1>4 DEF TypeOK

\* Steps of the orchestrator.
LEMMA OrchestratorSteps ==
  ASSUME IInv, StartRelease \/ Gather \/ Complete \/ Cancel \/ Terminate
  PROVE  IInv'
<1> USE ContractAssumption, ReleaseAssumption
<1> USE DEF IInv, TypeOK, contractVars, report
<1>1. UNCHANGED <<stage, service, faulty, late>>
  BY DEF StartRelease, Gather, Complete, Cancel, Terminate
<1>2. \A d \in Deploys : Ended(d)'
  BY <1>1 DEF Ended, Serves
<1>3. CASE StartRelease
  <2>1. TypeOK' /\ release' # "idle" /\ results' = <<>> /\ cancelled' = cancelled
    BY <1>1, <1>3 DEF StartRelease, Duplicates, FanOut
  <2>2. \A d \in Deploys : stage[d] = "idle"
    BY <1>3 DEF StartRelease, FanOut, Owners, Listed
  <2>3. \A s \in Services : service[s] = "old"
    BY <1>3 DEF StartRelease, FanOut, Owners, Listed, Untouched
  <2>4. FanOut' /\ Untouched' /\ Gathered'
    BY <1>1, <1>3, <2>1, <2>2, <2>3 DEF StartRelease, FanOut, Untouched, Gathered, Duplicates
  <2>5. Lists'
    BY <1>3 DEF StartRelease, Lists
  <2> QED
    BY <1>2, <2>1, <2>4, <2>5
<1>4. CASE Gather
  <2> DEFINE i == Len(results) + 1
  <2>1. /\ release = "running" /\ i \in Listed /\ Resolved(i)
        /\ UNCHANGED <<release, size, refused, cancelled>>
        /\ \E st \in {Outcome(i)} \cup (IF cancelled THEN {"RolledBack"} ELSE {}) :
             /\ results' = Append(results, st)
             /\ IF st = "Promoted"
                THEN promoted' = promoted \cup {ServiceOf[i]} /\ UNCHANGED notPromoted
                ELSE notPromoted' = notPromoted \cup {ServiceOf[i]} /\ UNCHANGED promoted
    BY <1>4 DEF Gather
  <2>2. Outcome(i) \in {"PolicyRejected", "Promoted"} \cup Rollbacks
    BY DEF Outcome, Rollbacks
  <2>3. PICK st \in {"PolicyRejected", "Promoted"} \cup Rollbacks :
          /\ results' = Append(results, st)
          /\ st = Outcome(i) \/ (cancelled /\ st = "RolledBack")
          /\ st = "Promoted" => /\ promoted' = promoted \cup {ServiceOf[i]}
                                /\ notPromoted' = notPromoted
          /\ st # "Promoted" => /\ notPromoted' = notPromoted \cup {ServiceOf[i]}
                                /\ promoted' = promoted
    BY <2>1, <2>2 DEF Rollbacks
  <2>4. /\ Len(results') = i /\ results'[i] = st
        /\ \A k \in DOMAIN results : results'[k] = results[k]
        /\ DOMAIN results' = DOMAIN results \cup {i}
    BY <2>3
  <2>5. Lists' /\ promoted' \subseteq Services /\ notPromoted' \subseteq Services
    BY <2>1, <2>3, ListsGrow
  <2>6. TypeOK'
    BY <1>1, <2>1, <2>3, <2>4, <2>5 DEF Listed
  <2>7. FanOut' /\ Untouched'
    BY <1>1, <2>1 DEF FanOut, Untouched, Owners, Listed, Duplicates
  <2>8. st = "Promoted" => stage[i] = "Promoted"
    BY <2>3 DEF Outcome, Rollbacks
  <2>9. ~cancelled => /\ i \in refused \/ stage[i] \in Outcomes \ {"Terminated"}
                      /\ stage[i] = "Promoted" => st = "Promoted"
    BY <2>1, <2>3, OwnersAreDeploys DEF Resolved, Outcome, FanOut
  <2>10. Gathered'
    BY <1>1, <2>1, <2>4, <2>8, <2>9 DEF Gathered
  <2> QED
    BY <1>2, <2>5, <2>6, <2>7, <2>10
<1>5. CASE Complete \/ Cancel \/ Terminate
  <2>1. UNCHANGED <<size, refused, results, promoted, notPromoted>> /\ (cancelled => cancelled')
    BY <1>5 DEF Complete, Cancel, Terminate
  <2>2. /\ release = "running" /\ release' \in {"running", "Completed", "Terminated"}
        /\ release' = "Completed" => Len(results) = size
    BY <1>5 DEF Complete, Cancel, Terminate, GatheredAll
  <2>3. TypeOK'
    BY <1>1, <1>5, <2>1, <2>2 DEF Complete, Cancel, Terminate
  <2>4. FanOut' /\ Untouched' /\ Gathered' /\ Lists'
    BY <1>1, <2>1, <2>2 DEF FanOut, Untouched, Gathered, Lists, Owners, Listed, Duplicates
  <2> QED
    BY <1>2, <2>3, <2>4
<1> QED
  BY <1>3, <1>4, <1>5

\* Steps of a child that keeps its contract.
LEMMA ChildSteps ==
  ASSUME IInv, NEW i \in Deploys, StartChild(i) \/ ChildStep(i)
  PROVE  IInv'
<1> USE ContractAssumption
<1> USE DEF IInv
<1>1. /\ Begin(i) \/ DeployStep(i)
      /\ UNCHANGED <<orchestratorVars, late>>
      /\ i \in Owners
  <2>1. CASE StartChild(i)
    BY <2>1 DEF StartChild, Owners
  <2>2. CASE ChildStep(i)
    <3>1. stage[i] # "idle"
      BY <2>2 DEF ChildStep, DeployStep, Admit, Refuse, Change, Fault, Promote, Undo,
                  Revert, RollBack, Straggle, Moves, Rollbacks
    <3> QED
      BY <2>2, <3>1 DEF ChildStep, FanOut
  <2> QED
    BY <2>1, <2>2
<1>2. /\ stage' \in [Deploys -> {"idle"} \cup Open \cup Outcomes]
      /\ service' \in [Services -> States]
      /\ faulty' \in [Deploys -> BOOLEAN]
      /\ ChildMoves(i)
  BY <1>1, ChildEffect
<1>3. TypeOK'
  BY <1>1, <1>2 DEF TypeOK, orchestratorVars, report
<1>4. UNCHANGED <<release, size, refused, results, promoted, notPromoted, cancelled, late>>
  BY <1>1 DEF orchestratorVars, report
<1>5. FanOut'
  <2>1. \A d \in Deploys : stage'[d] # "idle" => d \in Owners'
    BY <1>1, <1>2, <1>4 DEF FanOut, ChildMoves, Owners, Listed
  <2>2. \A d \in late' : stage'[d] = "Terminated"
    BY <1>2, <1>4 DEF FanOut, ChildMoves, Outcomes, TypeOK
  <2>3. release' \in {"idle", "running"} => \A d \in Deploys : stage'[d] # "Terminated"
    BY <1>2, <1>4 DEF FanOut, ChildMoves
  <2> QED
    BY <1>4, <2>1, <2>2, <2>3 DEF FanOut, Duplicates
<1>6. \A d \in Deploys : d \in Owners /\ d # i => ServiceOf[d] # ServiceOf[i]
  BY <1>1, OneOwner
<1>7. Untouched'
  <2> SUFFICES ASSUME NEW s \in Services,
                      \A d \in Owners' : ServiceOf[d] = s =>
                        stage'[d] \in {"idle", "checking"} \cup Refusals
               PROVE  service'[s] = "old"
    BY DEF Untouched
  <2>1. Owners' = Owners /\ Owners \subseteq Deploys
    BY <1>4, OwnersAreDeploys DEF Owners, Listed
  <2>2. CASE s = ServiceOf[i]
    <3>1. stage[i] \in {"idle", "checking"} /\ service' = service
      BY <1>1, <1>2, <2>1, <2>2 DEF ChildMoves
    <3>2. \A d \in Owners : ServiceOf[d] = s => d = i
      BY <1>6, <2>1, <2>2
    <3> QED
      BY <3>1, <3>2 DEF Untouched
  <2>3. CASE s # ServiceOf[i]
    <3>1. \A d \in Owners : ServiceOf[d] = s => stage'[d] = stage[d]
      BY <1>2, <2>1, <2>3 DEF ChildMoves
    <3>2. service'[s] = service[s]
      BY <1>2, <2>3 DEF ChildMoves
    <3> QED
      BY <2>1, <3>1, <3>2 DEF Untouched
  <2> QED
    BY <2>2, <2>3
<1>8. \A d \in Deploys : Ended(d)'
  <2> SUFFICES ASSUME NEW d \in Deploys, d # i
               PROVE  Ended(d)'
    BY <1>2 DEF ChildMoves
  <2>1. stage'[d] = stage[d] /\ faulty'[d] = faulty[d]
    BY <1>2 DEF ChildMoves
  <2>2. CASE stage[d] = "idle"
    BY <2>1, <2>2 DEF Ended, Rollbacks
  <2>3. CASE stage[d] # "idle"
    <3>1. service'[ServiceOf[d]] = service[ServiceOf[d]]
      BY <1>2, <1>6, <2>3 DEF FanOut, ChildMoves
    <3> QED
      BY <2>1, <3>1 DEF Ended, Serves
  <2> QED
    BY <2>2, <2>3
<1>9. Gathered'
  <2>1. DOMAIN results \subseteq Deploys
    BY ReleaseAssumption DEF TypeOK
  <2>2. \A k \in Deploys : /\ stage[k] \in Outcomes => stage'[k] = stage[k]
                           /\ k \in refused => stage'[k] = stage[k]
    BY <1>1, <1>2 DEF ChildMoves, Owners
  <2>3. \A k \in refused : stage[k] = "idle" \/ k \notin Deploys
    BY DEF FanOut, Owners
  <2> QED
    BY <1>4, <2>1, <2>2, <2>3 DEF Gathered, Outcomes
<1>10. Lists'
  BY <1>4 DEF Lists
<1> QED
  BY <1>3, <1>5, <1>7, <1>8, <1>9, <1>10

\* The server terminates a child, or an attempt of a terminated child goes on.
LEMMA TerminationSteps ==
  ASSUME IInv, NEW i \in Deploys, TerminateChild(i) \/ LateCall(i) \/ LateStops(i)
  PROVE  IInv'
<1> USE ContractAssumption
<1> USE DEF IInv
<1>1. /\ UNCHANGED orchestratorVars /\ faulty' = faulty
      /\ UNCHANGED <<release, size, refused, results, promoted, notPromoted, cancelled>>
  BY DEF TerminateChild, LateCall, LateStops, orchestratorVars, report, contractVars
<1>2. Owners' = Owners /\ Owners \subseteq Deploys
  BY <1>1, OwnersAreDeploys DEF Owners, Listed
<1>3. Lists'
  BY <1>1 DEF Lists
<1>4. CASE TerminateChild(i)
  <2>1. /\ release \in {"Completed", "Terminated"}
        /\ stage[i] \in Open
        /\ stage' = [stage EXCEPT ![i] = "Terminated"]
        /\ service' = service
        /\ late' \in {late, late \cup {i}}
    BY <1>4 DEF TerminateChild, Moves, Open
  <2>2. TypeOK'
    BY <1>1, <2>1 DEF TypeOK, Outcomes
  <2>3. FanOut'
    BY <1>1, <1>2, <2>1 DEF FanOut, TypeOK, Open, Duplicates
  <2>4. Untouched'
    BY <1>2, <2>1 DEF Untouched, TypeOK, Refusals
  <2>5. \A d \in Deploys : Ended(d)'
    BY <1>1, <2>1 DEF Ended, Serves, TypeOK, Rollbacks
  <2>6. Gathered'
    <3>1. DOMAIN results \subseteq Deploys
      BY ReleaseAssumption DEF TypeOK
    <3>2. i \notin refused
      BY <2>1 DEF FanOut, Owners, Open
    <3> QED
      BY <1>1, <2>1, <3>1, <3>2 DEF Gathered, TypeOK, Open, Outcomes, Refusals, Rollbacks
  <2> QED
    BY <1>3, <2>2, <2>3, <2>4, <2>5, <2>6
<1>5. CASE LateCall(i) \/ LateStops(i)
  <2>1. /\ stage' = stage /\ late' \subseteq late
        /\ i \in late /\ stage[i] = "Terminated"
    BY <1>5 DEF LateCall, LateStops, contractVars, FanOut
  <2>2. /\ service' \in [Services -> States]
        /\ \A s \in Services \ {ServiceOf[i]} : service'[s] = service[s]
    BY <1>5 DEF LateCall, LateStops, contractVars, Sets, TypeOK
  <2>3. i \in Owners /\ \A d \in Owners : d # i => ServiceOf[d] # ServiceOf[i]
    <3>1. i \in Owners
      BY <2>1 DEF FanOut
    <3> QED
      BY <3>1, OneOwner
  <2>4. TypeOK' /\ FanOut'
    BY <1>1, <1>2, <2>1, <2>2 DEF TypeOK, FanOut, Duplicates
  <2>5. Untouched'
    BY <1>2, <2>1, <2>2, <2>3 DEF Untouched, Refusals
  <2>6. \A d \in Deploys : Ended(d)'
    <3> SUFFICES ASSUME NEW d \in Deploys
                 PROVE  Ended(d)'
      OBVIOUS
    <3>1. CASE d = i \/ stage[d] = "idle"
      BY <2>1, <3>1 DEF Ended, Rollbacks
    <3>2. CASE d # i /\ stage[d] # "idle"
      BY <1>1, <2>1, <2>2, <2>3, <3>2 DEF Ended, Serves, FanOut
    <3> QED
      BY <3>1, <3>2
  <2>7. Gathered'
    BY <1>1, <2>1 DEF Gathered
  <2> QED
    BY <1>3, <2>4, <2>5, <2>6, <2>7
<1> QED
  BY <1>4, <1>5

\* Every step of the orchestrator, of a child and of the server preserves it.
LEMMA StepHolds == IInv /\ [Next]_vars => IInv'
<1> SUFFICES ASSUME IInv, [Next]_vars PROVE IInv'
  OBVIOUS
<1>1. CASE UNCHANGED vars
  BY <1>1 DEF vars, contractVars, orchestratorVars, report, IInv, Lists, TypeOK, FanOut, Untouched, Ended,
              Gathered, Owners, Listed, Duplicates, Serves
<1>2. CASE Next
  BY <1>2, OrchestratorSteps, ChildSteps, TerminationSteps DEF Next
<1> QED
  BY <1>1, <1>2

-----------------------------------------------------------------------------
(* Theorems.                                                               *)

\* Every reachable state is well typed.
THEOREM TypeCorrect == Spec => []TypeOK
<1>1. IInv => TypeOK
  BY DEF IInv
<1> QED
  BY <1>1, InitHolds, StepHolds, PTL DEF Spec

\* What a release reports when it completes is true: see AllPromotedIsTrue.
THEOREM ReportIsTrue == Spec => []AllPromotedIsTrue
<1>1. IInv => AllPromotedIsTrue
  <2> SUFFICES ASSUME IInv, release = "Completed", AllPromoted, NEW i \in Listed
               PROVE  service[ServiceOf[i]] = "new"
    BY DEF AllPromotedIsTrue
  <2>1. i \in DOMAIN results /\ i \in Deploys
    BY OwnersAreDeploys DEF IInv, TypeOK, Gathered, Listed
  <2>2. stage[i] = "Promoted"
    BY <2>1 DEF AllPromoted, IInv, Gathered, Lists
  <2> QED
    BY <2>1, <2>2 DEF IInv, Ended, Serves
<1> QED
  BY <1>1, InitHolds, StepHolds, PTL DEF Spec

\* Nothing that failed is hidden: see PartialFailureSurfaced.
THEOREM FailureSurfaces == Spec => []PartialFailureSurfaced
<1>1. IInv => PartialFailureSurfaced
  <2> SUFFICES ASSUME IInv, release = "Completed", ~cancelled
               PROVE  /\ \A i \in Listed : i \in refused \/ stage[i] \in Outcomes
                      /\ promoted = {ServiceOf[i] : i \in {j \in Listed : stage[j] = "Promoted"}}
                      /\ notPromoted = {ServiceOf[i] : i \in {j \in Listed : stage[j] # "Promoted"}}
    BY DEF PartialFailureSurfaced
  <2>1. DOMAIN results = Listed
    BY DEF IInv, TypeOK, Gathered, Listed
  <2>2. \A i \in Listed : /\ results[i] = "Promoted" <=> stage[i] = "Promoted"
                          /\ i \in refused \/ stage[i] \in Outcomes
    BY <2>1 DEF IInv, Gathered
  <2>3. /\ {j \in Listed : results[j] = "Promoted"} = {j \in Listed : stage[j] = "Promoted"}
        /\ {j \in Listed : results[j] # "Promoted"} = {j \in Listed : stage[j] # "Promoted"}
    BY <2>2
  <2> QED
    BY <2>1, <2>2, <2>3 DEF IInv, Lists
<1> QED
  BY <1>1, InitHolds, StepHolds, PTL DEF Spec

\* Of a list that names no service twice, the result has no service in both lists:
\* it tells those that were promoted from those that were not.
THEOREM OutcomesApart ==
  Spec => [](release = "Completed" /\ ~cancelled /\ refused = {} =>
               promoted \cap notPromoted = {})
<1>1. IInv /\ PartialFailureSurfaced =>
        (release = "Completed" /\ ~cancelled /\ refused = {} =>
           promoted \cap notPromoted = {})
  <2> SUFFICES ASSUME IInv, PartialFailureSurfaced, refused = {},
                      release = "Completed", ~cancelled,
                      NEW s \in promoted, s \in notPromoted
               PROVE  FALSE
    OBVIOUS
  <2>1. PICK i \in Listed : ServiceOf[i] = s /\ stage[i] = "Promoted"
    BY DEF PartialFailureSurfaced
  <2>2. PICK j \in Listed : ServiceOf[j] = s /\ stage[j] # "Promoted"
    BY DEF PartialFailureSurfaced
  <2>3. i \in Owners /\ j \in Owners
    BY DEF Owners
  <2> QED
    BY <2>1, <2>2, <2>3, OneOwner DEF IInv
<1> QED
  BY <1>1, FailureSurfaces, InitHolds, StepHolds, PTL DEF Spec

\* A release that ends by itself leaves no half deploy: see NoHalfDeploy.
THEOREM WholeServices == Spec => []NoHalfDeploy
<1>1. IInv => NoHalfDeploy
  <2> SUFFICES ASSUME IInv, release = "Completed", ~cancelled,
                      NEW i \in Listed \ refused, ~faulty[i]
               PROVE  service[ServiceOf[i]] # "mixed"
    BY DEF NoHalfDeploy
  <2>1. i \in DOMAIN results /\ i \in Deploys /\ i \in Owners
    BY OwnersAreDeploys DEF IInv, TypeOK, Gathered, Listed, Owners
  <2>2. stage[i] \in Refusals \cup Rollbacks \cup {"Promoted"}
    BY <2>1 DEF IInv, Gathered, Outcomes
  <2>3. CASE stage[i] \in Refusals
    <3>1. \A d \in Owners : ServiceOf[d] = ServiceOf[i] => d = i
      BY <2>1, OneOwner DEF IInv
    <3> QED
      BY <2>1, <2>3, <3>1, ContractAssumption DEF IInv, Untouched
  <2>4. CASE stage[i] \in Rollbacks \cup {"Promoted"}
    BY <2>1, <2>4 DEF IInv, Ended, Serves
  <2> QED
    BY <2>2, <2>3, <2>4
<1> QED
  BY <1>1, InitHolds, StepHolds, PTL DEF Spec

\* Children do not get into each other's way: see OneDeployPerService.
THEOREM ServicesApart == Spec => []OneDeployPerService
<1>1. IInv => OneDeployPerService
  <2> SUFFICES ASSUME IInv, NEW i \in Deploys, NEW j \in Deploys,
                      stage[i] \in Open, stage[j] \in Open, ServiceOf[i] = ServiceOf[j]
               PROVE  i = j
    BY DEF OneDeployPerService
  <2>1. i \in Owners /\ j \in Owners
    BY DEF IInv, FanOut, Open
  <2> QED
    BY <2>1, OneOwner DEF IInv
<1> QED
  BY <1>1, InitHolds, StepHolds, PTL DEF Spec
=============================================================================
