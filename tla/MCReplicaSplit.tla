--------------------------- MODULE MCReplicaSplit ---------------------------
(***************************************************************************)
(* The replica split against its definition, over all targets up to        *)
(* MaxTarget and a canary weight that is raised percent by percent.        *)
(***************************************************************************)
EXTENDS ReplicaSplit

CONSTANT MaxTarget   \* bound: largest TargetReplicas tried

ASSUME MaxTargetAssumption == MaxTarget \in Nat

VARIABLES target, weight

Init == target \in 0..MaxTarget /\ weight = 0

RaiseWeight ==
  /\ weight < 100
  /\ weight' = weight + 1
  /\ UNCHANGED target

Spec == Init /\ [][RaiseWeight]_<<target, weight>>

\* The distance of a canary count from the exact share, in hundredths.
Distance(c) ==
  LET d == 100 * c - AtLeastOne(target) * weight IN IF d < 0 THEN -d ELSE d

\* The canary counts that honour the weight at all: some pod at any weight > 0.
Admissible == {c \in 0..AtLeastOne(target) : weight > 0 => c > 0}

\* ShiftTraffic's canary count is admissible and no admissible count comes
\* closer to the requested weight.
SplitIsNearest ==
  /\ CanaryShare(target, weight) \in Admissible
  /\ \A c \in Admissible : Distance(CanaryShare(target, weight)) <= Distance(c)

\* The two counts add up to the target: a shift neither adds nor loses capacity.
SplitConservesTotal ==
  CanaryShare(target, weight) + StableShare(target, weight) = AtLeastOne(target)
=============================================================================
