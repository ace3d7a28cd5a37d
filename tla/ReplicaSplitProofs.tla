------------------------- MODULE ReplicaSplitProofs -------------------------
(***************************************************************************)
(* The replica split of the traffic activities (activities/traffic.go) is  *)
(* right for every target and every weight, not only for the weight of 50  *)
(* that the workflow asks for.                                             *)
(***************************************************************************)
EXTENDS MCReplicaSplit, TLAPS

\* A weight of at most 100 percent asks for at most a hundred hundredths of the
\* clamped target.
LEMMA WeightedTarget ==
  ASSUME NEW t \in Nat, NEW p \in 0..100
  PROVE  t * p \in Nat /\ t * p <= 100 * t /\ (t > 0 /\ p > 0 => t * p > 0)
<1>1. t * p \in Nat
  OBVIOUS
<1>2. t * p <= 100 * t
  <2>1. \A q \in Nat : t * q \in Nat
    OBVIOUS
  <2>2. t * (100 - p) \in Nat /\ t * (100 - p) = 100 * t - t * p
    BY <2>1
  <2> QED
    BY <1>1, <2>2
<1>3. t > 0 /\ p > 0 => t * p > 0
  OBVIOUS
<1> QED
  BY <1>1, <1>2, <1>3

\* math.Round is nearest: the rounded share is within half a pod of x hundredths.
LEMMA RoundedIsNearest ==
  ASSUME NEW x \in Nat
  PROVE  LET r == (2 * x + 100) \div 200
         IN  r \in Nat /\ 200 * r <= 2 * x + 100 /\ 2 * x + 100 < 200 * r + 200
OBVIOUS

\* The canary's share against the hundredths x it is asked for: within half a
\* pod, or the single pod that any weight above zero gets; never above the target.
LEMMA ShareBounds ==
  ASSUME NEW n \in Nat, NEW p \in 0..100
  PROVE  LET t == AtLeastOne(n)
             x == t * p
             c == CanaryShare(n, p)
         IN  /\ t \in Nat \ {0} /\ x \in Nat /\ c \in 0..t
             /\ p > 0 => c > 0
             /\ \/ 200 * c <= 2 * x + 100 /\ 2 * x <= 200 * c + 100
                \/ c = 1 /\ p > 0 /\ 2 * x < 100
<1> DEFINE t == AtLeastOne(n)
           x == t * p
           r == (2 * x + 100) \div 200
<1>1. t \in Nat /\ t > 0
  BY DEF AtLeastOne
<1>2. x \in Nat /\ x <= 100 * t
  BY <1>1, WeightedTarget
<1>3. r \in Nat /\ 200 * r <= 2 * x + 100 /\ 2 * x + 100 < 200 * r + 200
  BY <1>2, RoundedIsNearest
<1>4. 2 * t * p = 2 * x
  BY <1>1
<1>5. CanaryShare(n, p) = IF r < 1 /\ p > 0 THEN 1 ELSE r
  BY <1>4 DEF CanaryShare, RoundedShare
<1> DEFINE c == CanaryShare(n, p)
           Bounds == /\ c \in 0..t
                     /\ p > 0 => c > 0
                     /\ \/ 200 * c <= 2 * x + 100 /\ 2 * x <= 200 * c + 100
                        \/ c = 1 /\ p > 0 /\ 2 * x < 100
<1>6. c = IF r < 1 /\ p > 0 THEN 1 ELSE r
  BY <1>5
<1> HIDE DEF t, x, r, c
<1>7. r <= t
  BY <1>1, <1>2, <1>3
<1>8. ASSUME r < 1 /\ p > 0 PROVE Bounds
  BY <1>1, <1>2, <1>3, <1>6, <1>8
<1>9. ASSUME ~(r < 1 /\ p > 0) PROVE Bounds
  <2>1. c = r /\ (p > 0 => r > 0)
    BY <1>3, <1>6, <1>9
  <2> QED
    BY <1>1, <1>2, <1>3, <1>7, <2>1
<1>10. Bounds
  BY <1>8, <1>9
<1> QED
  BY <1>1, <1>2, <1>10 DEF t, x, c

\* Targets are natural numbers and weights percentages throughout.
LEMMA Percentages == Spec => [](target \in Nat /\ weight \in 0..100)
<1>1. Init => target \in Nat /\ weight \in 0..100
  BY MaxTargetAssumption DEF Init
<1>2. /\ target \in Nat /\ weight \in 0..100
      /\ [RaiseWeight]_<<target, weight>>
      => (target \in Nat /\ weight \in 0..100)'
  BY DEF RaiseWeight
<1> QED
  BY <1>1, <1>2, PTL DEF Spec

\* For every target and weight the canary's count is admissible and as close to
\* the requested share as an admissible count can be (ShiftTraffic): see
\* SplitIsNearest.
THEOREM SplitNearest == Spec => []SplitIsNearest
<1>1. target \in Nat /\ weight \in 0..100 => SplitIsNearest
  <2> SUFFICES ASSUME target \in Nat, weight \in 0..100 PROVE SplitIsNearest
    OBVIOUS
  <2> DEFINE t == AtLeastOne(target)
             x == t * weight
             c == CanaryShare(target, weight)
  <2>1. /\ t \in Nat \ {0} /\ x \in Nat /\ c \in 0..t
        /\ weight > 0 => c > 0
        /\ \/ 200 * c <= 2 * x + 100 /\ 2 * x <= 200 * c + 100
           \/ c = 1 /\ weight > 0 /\ 2 * x < 100
    BY ShareBounds
  <2>2. \A k : Distance(k) = IF 100 * k - x < 0 THEN -(100 * k - x) ELSE 100 * k - x
    BY DEF Distance
  <2>3. Admissible = {k \in 0..t : weight > 0 => k > 0}
    BY DEF Admissible
  <2> HIDE DEF t, x, c
  <2>4. c \in Admissible
    BY <2>1, <2>3
  <2>5. ASSUME NEW k \in Admissible PROVE Distance(c) <= Distance(k)
    <3>1. k \in Nat /\ (weight > 0 => k > 0) /\ c \in Nat
      BY <2>1, <2>3
    <3> QED
      BY <2>1, <2>2, <3>1
  <2> QED
    BY <2>4, <2>5 DEF SplitIsNearest, c
<1> QED
  BY <1>1, Percentages, PTL

\* For every target and weight the two counts add up to the clamped target: see
\* SplitConservesTotal.
THEOREM SplitConserves == Spec => []SplitConservesTotal
<1>1. target \in Nat /\ weight \in 0..100 => SplitConservesTotal
  <2> SUFFICES ASSUME target \in Nat, weight \in 0..100 PROVE SplitConservesTotal
    OBVIOUS
  <2>1. /\ AtLeastOne(target) \in Nat
        /\ CanaryShare(target, weight) \in 0..AtLeastOne(target)
    BY ShareBounds
  <2> QED
    BY <2>1 DEF SplitConservesTotal, StableShare
<1> QED
  BY <1>1, Percentages, PTL
=============================================================================
