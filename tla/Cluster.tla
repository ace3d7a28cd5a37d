------------------------------- MODULE Cluster -------------------------------
(***************************************************************************)
(* The Kubernetes cluster as the activities use it: for every service a    *)
(* stable and a canary Deployment, of which the code writes the image and  *)
(* the replica count, and the ready pods of the canary, which it reads.    *)
(*                                                                         *)
(* One call of a client helper (k8s_client.go) is one atomic step.         *)
(* scaleDeployment is a read followed by a compare-and-swap on the         *)
(* resource version, so it takes effect atomically or answers Conflict.    *)
(***************************************************************************)
EXTENDS Integers, FiniteSets

CONSTANTS
  Services,       \* the services that have Deployments in the cluster
  Images,         \* container image references
  InitialImage,   \* the image every Deployment starts with
  Admitted,       \* the images the admission webhook (Kyverno) lets through
  Runnable,       \* the images whose pods pass their readiness probe
  BaseReplicas,   \* the replica count of a stable Deployment at the start
  Faults          \* the kinds of failure the environment may inject

FaultKinds == {"call", "status", "reply", "timeout", "client", "crash", "cancel", "pod"}

ASSUME ClusterAssumption ==
  /\ InitialImage \in Images
  /\ Admitted \subseteq Images
  /\ Runnable \subseteq Images
  /\ BaseReplicas \in Nat
  /\ Faults \subseteq FaultKinds

VARIABLES
  image,      \* image[d]: the pod template's image of Deployment d
  replicas,   \* replicas[d]: the desired replica count of Deployment d
  ready       \* ready[s][i]: ready canary pods of service s running image i

clusterVars == <<image, replicas, ready>>

Roles == {"stable", "canary"}
Deployments == Services \X Roles

stableName(s) == <<s, "stable">>
canaryName(s) == <<s, "canary">>

ClusterTypeOK ==
  /\ image \in [Deployments -> Images]
  /\ replicas \in [Deployments -> Nat]
  /\ ready \in [Services -> [Images -> Nat]]

\* The sample application as deployed: stable at full count, an idle canary.
ClusterInit ==
  /\ image = [d \in Deployments |-> InitialImage]
  /\ replicas = [d \in Deployments |-> IF d[2] = "stable" THEN BaseReplicas ELSE 0]
  /\ ready = [s \in Services |-> [i \in Images |-> 0]]

-----------------------------------------------------------------------------
(* Client helpers.                                                         *)

setImage(d, i) ==
  /\ image' = [image EXCEPT ![d] = i]
  /\ UNCHANGED <<replicas, ready>>

scaleDeployment(d, n) ==
  /\ replicas' = [replicas EXCEPT ![d] = n]
  /\ UNCHANGED <<image, ready>>

\* Status.ReadyReplicas counts every ready pod, whichever template it is from.
ReadyReplicas(s) == Cardinality(UNION { {i} \X (1..ready[s][i]) : i \in Images })

\* Mutant: no check for a canary without replicas.
HealthyEvenIfEmpty(s) == ReadyReplicas(s) >= replicas[canaryName(s)]

\* The verdict HealthCheck draws from one deploymentStatus of the canary.
HealthyStatus(s) ==
  LET desired == replicas[canaryName(s)]
  IN  desired # 0 /\ ReadyReplicas(s) >= desired

(***************************************************************************)
(* Errors of an API call, by the class isInfraError tells apart: the       *)
(* structured statuses it lists, Transport for an error that is not an     *)
(* APIStatus (the cached client error included), and other 4xx statuses,   *)
(* among them the webhook's denial.                                        *)
(***************************************************************************)
InfraStatus == {"ServerTimeout", "ServiceUnavailable", "Timeout",
                "InternalError", "TooManyRequests", "NotFound"}
OtherStatus == {"AdmissionDenied", "Unauthorized", "Conflict"}
APIStatus == InfraStatus \cup OtherStatus
ApiErrors == APIStatus \cup {"Transport"}

\* Mutant: an error that is not an APIStatus is no infrastructure error.
ListedError(e) == e \in InfraStatus

isInfraError(e) == e \in InfraStatus \/ e \notin APIStatus

-----------------------------------------------------------------------------
(***************************************************************************)
(* The Deployment controller and the kubelet, as far as the canary's       *)
(* readiness goes.  A rolling update keeps old pods until new ones are     *)
(* ready (maxSurge 1, maxUnavailable 0 at these sizes); surplus pods are   *)
(* removed, and any pod can stop being ready.                              *)
(***************************************************************************)
PodReady(s) ==
  LET i == image[canaryName(s)]
  IN  /\ i \in Runnable
      /\ ready[s][i] < replicas[canaryName(s)]
      /\ ReadyReplicas(s) <= replicas[canaryName(s)]
      /\ ready' = [ready EXCEPT ![s][i] = @ + 1]
      /\ UNCHANGED <<image, replicas>>

PodLost(s) ==
  /\ ReadyReplicas(s) > replicas[canaryName(s)] \/ "pod" \in Faults
  /\ \E i \in Images :
       /\ ready[s][i] > 0
       /\ ready' = [ready EXCEPT ![s][i] = @ - 1]
  /\ UNCHANGED <<image, replicas>>
=============================================================================
