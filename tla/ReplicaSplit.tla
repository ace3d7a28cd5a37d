---------------------------- MODULE ReplicaSplit ----------------------------
(***************************************************************************)
(* The replica arithmetic of the traffic activities: how ShiftTraffic      *)
(* turns a canary weight in percent into a canary/stable replica split,    *)
(* and how ShiftTrafficBack computes the stable count it restores.         *)
(***************************************************************************)
EXTENDS Integers

(***************************************************************************)
(* if total < 1 { total = 1 }: both activities clamp the target this way.  *)
(***************************************************************************)
AtLeastOne(n) == IF n < 1 THEN 1 ELSE n

\* Mutants: the quotient truncated, or rounded up past a whole number.
TruncatedShare(total, weight) == (total * weight) \div 100
OvershootShare(total, weight) == (total * weight) \div 100 + 1

(***************************************************************************)
(* math.Round(total * weight / 100) for non-negative arguments: the        *)
(* nearest integer, halves away from zero.  The float64 quotient is exact  *)
(* where it matters: a half is representable and any other quotient is at  *)
(* least 1/100 away from one.                                              *)
(***************************************************************************)
RoundedShare(total, weight) == (2 * total * weight + 100) \div 200

\* A canary that is to get traffic at all gets a pod.
CanaryShare(target, weight) ==
  LET share == RoundedShare(AtLeastOne(target), weight)
  IN  IF share < 1 /\ weight > 0 THEN 1 ELSE share

\* Mutant: the remainder of the raw target.
RawStableShare(target, weight) == target - CanaryShare(target, weight)

\* Stable keeps the rest of the target.
StableShare(target, weight) ==
  LET rest == AtLeastOne(target) - CanaryShare(target, weight)
  IN  IF rest < 0 THEN 0 ELSE rest
=============================================================================
