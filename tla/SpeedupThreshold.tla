-------------------------- MODULE SpeedupThreshold --------------------------
(***************************************************************************)
(* gate.py's evaluate on a timing that the harness calls valid: is the     *)
(* candidate fast enough to take its parent's place?  The original, the    *)
(* parent and the candidate are each measured anew, and summed up by a     *)
(* median and a coefficient of variation (CV).                             *)
(*                                                                         *)
(* A CV, a multiplier and a threshold are numbers of 1/Unit.  A fraction   *)
(* is compared by cross-multiplication: the code's floats are taken to be  *)
(* exact, and the median and the CV of samples are the inputs here.        *)
(***************************************************************************)
EXTENDS Naturals

CONSTANTS
  Unit,     \* how many units make 1
  Median,   \* the medians
  Cv,       \* the CVs
  Policy    \* the performance policies of contracts

\* validate_contract and _positive_samples.
ASSUME ThresholdAssumption ==
  /\ Unit \in Nat \ {0}
  /\ Median \subseteq Nat \ {0}
  /\ Cv \subseteq Nat
  /\ Policy \subseteq [improvement : Nat, multiplier : Nat, maximum_cv : Nat, floor : Nat \ {0}]

VARIABLES policy, original, parent, candidate

thresholdVars == <<policy, original, parent, candidate>>

Summary == [median : Median, cv : Cv]

Larger(m, n) == IF m >= n THEN m ELSE n

ObservedCvWithoutParent(o, p, c) == Larger(o.cv, c.cv)

ObservedCv(o, p, c) == Larger(o.cv, Larger(p.cv, c.cv))

\* In 1/(Unit * Unit).
Margin(o, p, c) ==
  Larger(policy.improvement * Unit, policy.multiplier * ObservedCv(o, p, c))

\* a/b < c/d
Below(a, b, c, d) == a * d < c * b

SlowAgainstFloor(o, p, c) == Below(o.median, c.median, policy.floor, Unit)

\* The speedup over the original is below the parent's with the margin on
\* it, or below the floor.
Slow(o, p, c) ==
  \/ Below(o.median, c.median, (Unit * Unit + Margin(o, p, c)) * o.median, Unit * Unit * p.median)
  \/ Below(o.median, c.median, policy.floor, Unit)

Unstable(o, p, c) == ObservedCv(o, p, c) > policy.maximum_cv

\* The class of Gate's Timing that a valid timing is in.
TimingClass(o, p, c) ==
  IF Unstable(o, p, c) THEN "unstable" ELSE IF Slow(o, p, c) THEN "slow" ELSE "fast"

ThresholdInit ==
  /\ policy \in Policy
  /\ original \in Summary /\ parent \in Summary /\ candidate \in Summary

\* Another candidate is measured.
ThresholdNext == candidate' \in Summary /\ UNCHANGED <<policy, original, parent>>

ThresholdSpec == ThresholdInit /\ [][ThresholdNext]_thresholdVars

---------------------------------------------------------------------------

\* The documented predicate, condition by condition: no measurement is noisier
\* than allowed, and the gain over the parent is at least the minimum and at
\* least k times the CV of each measurement, with the floor over the original
\* (references/acceptance-contract.md, Performance predicate; gate.py
\* evaluate).
MeetsThePredicate ==
  TimingClass(original, parent, candidate) = "fast" <=>
    /\ \A s \in {original, parent, candidate} :
         /\ s.cv <= policy.maximum_cv
         /\ (Unit * Unit + policy.multiplier * s.cv) * candidate.median
              <= Unit * Unit * parent.median
    /\ (Unit + policy.improvement) * candidate.median <= Unit * parent.median
    /\ policy.floor * candidate.median <= Unit * original.median

\* Two kernels never each take the other's place on the same measurements,
\* unless the contract asks for no gain at all and they tie: a search cannot
\* go in circles on noise (gate.py evaluate; SKILL.md asks a candidate to
\* improve over its parents).
PromotionIsOneWay ==
  /\ TimingClass(original, parent, candidate) = "fast"
  /\ TimingClass(original, candidate, parent) = "fast"
  => parent.median = candidate.median /\ Margin(original, parent, candidate) = 0
=============================================================================
