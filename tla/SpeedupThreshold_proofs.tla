----------------------- MODULE SpeedupThreshold_proofs -----------------------
(***************************************************************************)
(* For every unit, every measurement and every policy: the cross-          *)
(* multiplied comparison of gate.py is the documented predicate, a better  *)
(* measurement is no worse, and promotions do not lead back.               *)
(***************************************************************************)
EXTENDS SpeedupThreshold, NumberFacts, TLAPS

LEMMA Scaled ==
  ASSUME NEW a \in Nat, NEW x \in Nat, NEW y \in Nat, x <= y
  PROVE  a * x <= a * y
<1>1. PICK d \in Nat : y = x + d
  <2>1. y - x \in Nat
    OBVIOUS
  <2>2. y = x + (y - x)
    OBVIOUS
  <2> QED
    BY <2>1, <2>2
<1>2. a * y = a * x + a * d
  BY <1>1, SMT
<1>3. a * d \in Nat /\ a * x \in Nat
  BY SMT
<1> QED
  BY <1>2, <1>3

LEMMA Cancelled ==
  ASSUME NEW a \in Nat \ {0}, NEW x \in Nat, NEW y \in Nat
  PROVE  (a * x <= a * y) <=> (x <= y)
<1>1. CASE x <= y
  BY <1>1, Scaled
<1>2. CASE ~(x <= y)
  <2>1. y + 1 <= x
    BY <1>2
  <2>2. a * (y + 1) <= a * x
    BY <2>1, Scaled
  <2>3. a * (y + 1) = a * y + a
    BY SMT
  <2>4. a * x \in Nat /\ a * y \in Nat
    BY SMT
  <2> QED
    BY <1>2, <2>2, <2>3, <2>4
<1> QED
  BY <1>1, <1>2

LEMMA LargerIsLarger ==
  ASSUME NEW m \in Nat, NEW n \in Nat
  PROVE  /\ Larger(m, n) \in Nat
         /\ m <= Larger(m, n) /\ n <= Larger(m, n)
         /\ Larger(m, n) = m \/ Larger(m, n) = n
BY DEF Larger

\* A larger margin is harder to meet.
LEMMA Harder ==
  ASSUME NEW a \in Nat, NEW b \in Nat, NEW c \in Nat, NEW x \in Nat, a <= b, b * c <= x
  PROVE  a * c <= x
<1>1. c * a <= c * b
  BY Scaled
<1>2. c * a = a * c /\ c * b = b * c /\ a * c \in Nat /\ b * c \in Nat
  BY SMT
<1> QED
  BY <1>1, <1>2

\* The larger of two margins is met when both are.
LEMMA LargerIsMet ==
  ASSUME NEW u \in Nat, NEW m \in Nat, NEW n \in Nat, NEW c \in Nat, NEW x \in Nat
  PROVE  (u + Larger(m, n)) * c <= x <=> (u + m) * c <= x /\ (u + n) * c <= x
<1> DEFINE l == Larger(m, n)
<1>1. l \in Nat /\ m <= l /\ n <= l /\ (l = m \/ l = n)
  BY LargerIsLarger
<1> HIDE DEF l
<1>2. u + m <= u + l /\ u + n <= u + l /\ u + l \in Nat /\ u + m \in Nat /\ u + n \in Nat
  BY <1>1
<1>3. (u + l) * c <= x => (u + m) * c <= x /\ (u + n) * c <= x
  BY <1>2, Harder
<1>4. (u + m) * c <= x /\ (u + n) * c <= x => (u + l) * c <= x
  BY <1>1
<1> QED
  BY <1>3, <1>4 DEF l

\* As the code has it, the margin is in 1/(Unit * Unit); the minimum
\* improvement is in 1/Unit.
LEMMA Improvement ==
  ASSUME NEW u \in Nat \ {0}, NEW i \in Nat, NEW c \in Nat, NEW p \in Nat
  PROVE  (u * u + i * u) * c <= u * u * p <=> (u + i) * c <= u * p
<1>1. (u * u + i * u) * c = u * ((u + i) * c) /\ u * u * p = u * (u * p)
  BY SMT
<1>2. (u + i) * c \in Nat /\ u * p \in Nat
  BY SMT
<1> QED
  BY <1>1, <1>2, Cancelled

\* The noisiest of the three measurements decides.
LEMMA Noisiest ==
  ASSUME NEW u \in Nat, NEW k \in Nat, NEW c \in Nat, NEW x \in Nat,
         NEW a \in Nat, NEW b \in Nat, NEW d \in Nat
  PROVE  (u + k * Larger(a, Larger(b, d))) * c <= x
           <=> /\ (u + k * a) * c <= x
               /\ (u + k * b) * c <= x
               /\ (u + k * d) * c <= x
<1> DEFINE l == Larger(a, Larger(b, d))
<1>1. l \in Nat /\ a <= l /\ b <= l /\ d <= l /\ (l = a \/ l = b \/ l = d)
  BY DEF Larger
<1> HIDE DEF l
<1>2. k * a <= k * l /\ k * b <= k * l /\ k * d <= k * l
  BY <1>1, Scaled
<1>3. k * a \in Nat /\ k * b \in Nat /\ k * d \in Nat /\ k * l \in Nat
  BY <1>1, SMT
<1>4. u + k * a <= u + k * l /\ u + k * b <= u + k * l /\ u + k * d <= u + k * l
  BY <1>2, <1>3
<1>5. u + k * a \in Nat /\ u + k * b \in Nat /\ u + k * d \in Nat /\ u + k * l \in Nat
  BY <1>3
<1>6. (u + k * l) * c <= x => /\ (u + k * a) * c <= x
                              /\ (u + k * b) * c <= x
                              /\ (u + k * d) * c <= x
  BY <1>4, <1>5, Harder
<1> QED
  BY <1>1, <1>6 DEF l

---------------------------------------------------------------------------
(* The module's own definitions.                                           *)

ThresholdTypeOK ==
  /\ policy \in Policy
  /\ original \in Summary /\ parent \in Summary /\ candidate \in Summary

LEMMA Fields ==
  ASSUME ThresholdTypeOK
  PROVE  /\ Unit \in Nat \ {0}
         /\ policy.improvement \in Nat /\ policy.multiplier \in Nat
         /\ policy.maximum_cv \in Nat /\ policy.floor \in Nat
         /\ \A s \in {original, parent, candidate} : s.median \in Nat \ {0} /\ s.cv \in Nat
BY ThresholdAssumption DEF ThresholdTypeOK, Summary

\* `a/b < c/d` with a and b measured and c/d the required speedup: a common
\* factor cancels.
LEMMA SlowIff ==
  ASSUME NEW o \in Summary, NEW p \in Summary, NEW c \in Summary, ThresholdTypeOK
  PROVE  /\ Margin(o, p, c) \in Nat
         /\ ~Slow(o, p, c) <=>
              /\ (Unit * Unit + Margin(o, p, c)) * c.median <= Unit * Unit * p.median
              /\ policy.floor * c.median <= Unit * o.median
<1> DEFINE M == Margin(o, p, c)
           U == Unit * Unit
<1>1. /\ Unit \in Nat \ {0} /\ policy.floor \in Nat
      /\ policy.improvement \in Nat /\ policy.multiplier \in Nat
  BY Fields
<1>2. /\ o.median \in Nat \ {0} /\ p.median \in Nat \ {0} /\ c.median \in Nat \ {0}
      /\ o.cv \in Nat /\ p.cv \in Nat /\ c.cv \in Nat
  BY ThresholdAssumption DEF Summary
<1>3. M \in Nat
  <2>1. ObservedCv(o, p, c) \in Nat
    BY <1>2 DEF ObservedCv, Larger
  <2>2. policy.improvement * Unit \in Nat /\ policy.multiplier * ObservedCv(o, p, c) \in Nat
    BY <1>1, <2>1, SMT
  <2> QED
    BY <2>2 DEF Margin, Larger
<1>4. U \in Nat
  BY <1>1, SMT
<1> HIDE DEF M, U
<1>5. Below(o.median, c.median, (U + M) * o.median, U * p.median)
        <=> ~((U + M) * c.median <= U * p.median)
  <2> DEFINE l == (U + M) * c.median
             r == U * p.median
  <2>1. l \in Nat /\ r \in Nat
    BY <1>2, <1>3, <1>4, SMT
  <2>2. (U + M) * o.median * c.median = o.median * l
    BY <1>2, <1>3, <1>4, SMT
  <2>3. o.median * l \in Nat /\ o.median * r \in Nat
    <3> HIDE DEF l, r
    <3> QED
      BY <1>2, <2>1, SMT
  <2>4. o.median * l <= o.median * r <=> l <= r
    <3> HIDE DEF l, r
    <3> QED
      BY <1>2, <2>1, Cancelled
  <2>5. Below(o.median, c.median, (U + M) * o.median, U * p.median)
          <=> o.median * r < o.median * l
    BY <2>2 DEF Below
  <2>6. o.median * r < o.median * l <=> ~(o.median * l <= o.median * r)
    BY <2>3
  <2> QED
    BY <2>4, <2>5, <2>6
<1>6. Below(o.median, c.median, policy.floor, Unit)
        <=> ~(policy.floor * c.median <= Unit * o.median)
  <2>1. policy.floor * c.median \in Nat /\ o.median * Unit \in Nat
    BY <1>1, <1>2, SMT
  <2>2. o.median * Unit = Unit * o.median
    BY <1>1, <1>2, SMT
  <2> QED
    BY <2>1, <2>2 DEF Below
<1> QED
  BY <1>3, <1>5, <1>6 DEF Slow, M, U

---------------------------------------------------------------------------

LEMMA FastIff ==
  ASSUME ThresholdTypeOK
  PROVE  TimingClass(original, parent, candidate) = "fast" <=>
           /\ ObservedCv(original, parent, candidate) <= policy.maximum_cv
           /\ ~Slow(original, parent, candidate)
<1>1. ObservedCv(original, parent, candidate) \in Nat /\ policy.maximum_cv \in Nat
  BY Fields DEF ObservedCv, Larger
<1>2. Unstable(original, parent, candidate)
        <=> ~(ObservedCv(original, parent, candidate) <= policy.maximum_cv)
  BY <1>1 DEF Unstable
<1> QED
  BY <1>2 DEF TimingClass

LEMMA PredicateMet ==
  ASSUME ThresholdTypeOK
  PROVE  MeetsThePredicate
<1> DEFINE U  == Unit * Unit
           cv == ObservedCv(original, parent, candidate)
           c  == candidate.median
           p  == parent.median
<1>1. /\ Unit \in Nat \ {0} /\ policy.floor \in Nat
      /\ policy.improvement \in Nat /\ policy.multiplier \in Nat /\ policy.maximum_cv \in Nat
      /\ c \in Nat /\ p \in Nat
      /\ original.cv \in Nat /\ parent.cv \in Nat /\ candidate.cv \in Nat
  BY Fields
<1>2. U \in Nat /\ U * p \in Nat /\ policy.improvement * Unit \in Nat
  BY <1>1, SMT
<1>3. cv \in Nat /\ cv = Larger(original.cv, Larger(parent.cv, candidate.cv))
  BY <1>1 DEF ObservedCv, Larger
<1>4. policy.multiplier * cv \in Nat
  <2> HIDE DEF cv
  <2> QED
    BY <1>1, <1>3, SMT
<1>5. (U + Margin(original, parent, candidate)) * c <= U * p <=>
        /\ (Unit + policy.improvement) * c <= Unit * p
        /\ \A s \in {original, parent, candidate} : (U + policy.multiplier * s.cv) * c <= U * p
  <2>1. (U + Margin(original, parent, candidate)) * c <= U * p <=>
          /\ (U + policy.improvement * Unit) * c <= U * p
          /\ (U + policy.multiplier * cv) * c <= U * p
    <3> HIDE DEF U, cv, c, p
    <3>1. Margin(original, parent, candidate)
            = Larger(policy.improvement * Unit, policy.multiplier * cv)
      BY DEF Margin, cv
    <3> QED
      BY <1>1, <1>2, <1>4, <3>1, LargerIsMet
  <2>2. (U + policy.improvement * Unit) * c <= U * p
          <=> (Unit + policy.improvement) * c <= Unit * p
    <3> HIDE DEF c, p
    <3> QED
      BY <1>1, Improvement
  <2>3. (U + policy.multiplier * cv) * c <= U * p <=>
          \A s \in {original, parent, candidate} : (U + policy.multiplier * s.cv) * c <= U * p
    <3> DEFINE k == policy.multiplier
    <3>1. k \in Nat
      BY <1>1
    <3> HIDE DEF U, cv, c, p, k
    <3>2. (U + k * cv) * c <= U * p
            <=> /\ (U + k * original.cv) * c <= U * p
                /\ (U + k * parent.cv) * c <= U * p
                /\ (U + k * candidate.cv) * c <= U * p
      BY <1>1, <1>2, <1>3, <3>1, Noisiest
    <3>3. (\A s \in {original, parent, candidate} : (U + k * s.cv) * c <= U * p)
            <=> /\ (U + k * original.cv) * c <= U * p
                /\ (U + k * parent.cv) * c <= U * p
                /\ (U + k * candidate.cv) * c <= U * p
      BY Zenon
    <3> QED
      BY <3>2, <3>3 DEF k
  <2> QED
    BY <2>1, <2>2, <2>3
<1>6. cv <= policy.maximum_cv
        <=> \A s \in {original, parent, candidate} : s.cv <= policy.maximum_cv
  BY <1>1, <1>3 DEF Larger
<1>7. ~Slow(original, parent, candidate) <=>
        /\ (U + Margin(original, parent, candidate)) * c <= U * p
        /\ policy.floor * c <= Unit * original.median
  BY SlowIff DEF ThresholdTypeOK
<1> HIDE DEF cv
<1> QED
  BY <1>5, <1>6, <1>7, FastIff DEF MeetsThePredicate, cv

\* Adding up what it takes to replace a kernel and to be replaced by it
\* leaves nothing for the margin.
LEMMA NoWayBack ==
  ASSUME NEW U \in Nat \ {0}, NEW M \in Nat, NEW c \in Nat \ {0}, NEW p \in Nat \ {0},
         (U + M) * c <= U * p, (U + M) * p <= U * c
  PROVE  p = c /\ M = 0
<1>1. /\ U * c \in Nat /\ U * p \in Nat /\ M * c \in Nat /\ M * p \in Nat
      /\ (U + M) * c = U * c + M * c /\ (U + M) * p = U * p + M * p
  BY SMT
<1>2. M * c = 0 /\ U * c <= U * p /\ U * p <= U * c
  BY <1>1
<1>3. c <= p /\ p <= c
  BY <1>2, Cancelled
<1>4. M = 0
  <2>1. M * 0 = 0 /\ c * M = M * c /\ c * 0 = 0
    BY SMT
  <2>2. c * M <= c * 0
    BY <1>2, <2>1
  <2>3. M <= 0
    BY <2>2, Cancelled
  <2> QED
    BY <2>3
<1> QED
  BY <1>3, <1>4

LEMMA OneWay ==
  ASSUME ThresholdTypeOK
  PROVE  PromotionIsOneWay
<1> SUFFICES ASSUME TimingClass(original, parent, candidate) = "fast",
                    TimingClass(original, candidate, parent) = "fast"
             PROVE  parent.median = candidate.median /\ Margin(original, parent, candidate) = 0
  BY DEF PromotionIsOneWay
<1> DEFINE U == Unit * Unit
           M == Margin(original, parent, candidate)
<1>1. /\ Unit \in Nat \ {0}
      /\ candidate.median \in Nat \ {0} /\ parent.median \in Nat \ {0}
      /\ original.cv \in Nat /\ parent.cv \in Nat /\ candidate.cv \in Nat
  BY Fields
<1>2. U \in Nat \ {0}
  BY <1>1, SMT
<1>3. ~Slow(original, parent, candidate) /\ ~Slow(original, candidate, parent)
  BY DEF TimingClass
<1>4. Margin(original, candidate, parent) = M
  <2>1. ObservedCv(original, candidate, parent) = ObservedCv(original, parent, candidate)
    BY <1>1 DEF ObservedCv, Larger
  <2> QED
    BY <2>1 DEF Margin
<1>5. M \in Nat /\ (U + M) * candidate.median <= U * parent.median
  BY <1>3, SlowIff DEF ThresholdTypeOK
<1>6. (U + M) * parent.median <= U * candidate.median
  BY <1>3, <1>4, SlowIff DEF ThresholdTypeOK
<1> HIDE DEF U, M
<1>7. parent.median = candidate.median /\ M = 0
  BY <1>1, <1>2, <1>5, <1>6, NoWayBack
<1> QED
  BY <1>7 DEF M

\* The same as FastIff, for any measurements.
LEMMA FastFor ==
  ASSUME ThresholdTypeOK, NEW o \in Summary, NEW p \in Summary, NEW c \in Summary
  PROVE  TimingClass(o, p, c) = "fast" <=>
           /\ ObservedCv(o, p, c) <= policy.maximum_cv
           /\ (Unit * Unit + Margin(o, p, c)) * c.median <= Unit * Unit * p.median
           /\ policy.floor * c.median <= Unit * o.median
<1>1. ObservedCv(o, p, c) \in Nat /\ policy.maximum_cv \in Nat
  BY Fields, ThresholdAssumption DEF ObservedCv, Larger, Summary
<1>2. Unstable(o, p, c) <=> ~(ObservedCv(o, p, c) <= policy.maximum_cv)
  BY <1>1 DEF Unstable
<1> QED
  BY <1>2, SlowIff DEF TimingClass

\* A steadier measurement has no larger margin to meet.
LEMMA SmallerMargin ==
  ASSUME ThresholdTypeOK,
         NEW o \in Summary, NEW p \in Summary, NEW c \in Summary, NEW d \in Summary,
         d.cv <= c.cv
  PROVE  /\ ObservedCv(o, p, d) <= ObservedCv(o, p, c)
         /\ Margin(o, p, d) <= Margin(o, p, c)
<1> DEFINE x == ObservedCv(o, p, d)
           y == ObservedCv(o, p, c)
           k == policy.multiplier
           i == policy.improvement * Unit
<1>1. o.cv \in Nat /\ p.cv \in Nat /\ c.cv \in Nat /\ d.cv \in Nat
  BY ThresholdAssumption DEF Summary
<1>2. k \in Nat /\ policy.improvement \in Nat /\ Unit \in Nat
  BY Fields
<1>3. x \in Nat /\ y \in Nat /\ x <= y
  BY <1>1 DEF ObservedCv, Larger
<1>4. Margin(o, p, d) = Larger(i, k * x) /\ Margin(o, p, c) = Larger(i, k * y)
  BY DEF Margin
<1> HIDE DEF x, y, k
<1>5. i \in Nat /\ k * x \in Nat /\ k * y \in Nat
  BY <1>2, <1>3, SMT
<1>6. k * x <= k * y
  BY <1>2, <1>3, Scaled
<1> HIDE DEF i
<1>7. Larger(i, k * x) <= Larger(i, k * y)
  BY <1>5, <1>6 DEF Larger
<1> QED
  BY <1>3, <1>4, <1>7 DEF x, y

\* A kernel that is as quick and as steady as one that takes its parent's
\* place, or more so, takes it too: the noise allowance, which is a maximum
\* over three measurements, never turns a better measurement into a worse
\* verdict (gate.py evaluate).
BetterIsNoWorse ==
  [][ /\ TimingClass(original, parent, candidate) = "fast"
      /\ candidate'.median <= candidate.median
      /\ candidate'.cv <= candidate.cv
      => TimingClass(original, parent, candidate') = "fast" ]_thresholdVars

LEMMA BetterPasses ==
  ASSUME ThresholdTypeOK,
         NEW o \in Summary, NEW p \in Summary, NEW c \in Summary, NEW d \in Summary,
         TimingClass(o, p, c) = "fast", d.median <= c.median, d.cv <= c.cv
  PROVE  TimingClass(o, p, d) = "fast"
<1> DEFINE U == Unit * Unit
           M == Margin(o, p, c)
           N == Margin(o, p, d)
<1>1. /\ Unit \in Nat \ {0} /\ policy.floor \in Nat /\ policy.maximum_cv \in Nat
      /\ o.median \in Nat /\ p.median \in Nat /\ c.median \in Nat /\ d.median \in Nat
      /\ o.cv \in Nat /\ p.cv \in Nat /\ c.cv \in Nat /\ d.cv \in Nat
  BY Fields, ThresholdAssumption DEF Summary
<1>2. M \in Nat /\ N \in Nat
  BY SlowIff
<1>3. N <= M /\ ObservedCv(o, p, d) <= ObservedCv(o, p, c)
  BY SmallerMargin
<1>4. /\ ObservedCv(o, p, c) <= policy.maximum_cv
      /\ (U + M) * c.median <= U * p.median
      /\ policy.floor * c.median <= Unit * o.median
  BY FastFor
<1>5. ObservedCv(o, p, d) \in Nat /\ ObservedCv(o, p, c) \in Nat
  BY <1>1 DEF ObservedCv, Larger
<1>6. ObservedCv(o, p, d) <= policy.maximum_cv
  BY <1>1, <1>3, <1>4, <1>5
<1>7. U \in Nat /\ U * p.median \in Nat /\ Unit * o.median \in Nat
  BY <1>1, SMT
<1> HIDE DEF U, M, N
<1>8. U + M \in Nat /\ U + N \in Nat /\ U + N <= U + M
  BY <1>2, <1>3, <1>7
<1>9. (U + N) * c.median <= U * p.median
  BY <1>1, <1>4, <1>7, <1>8, Harder
<1>10. (U + N) * d.median <= (U + N) * c.median
  BY <1>1, <1>8, Scaled
<1>11. (U + N) * d.median \in Nat /\ (U + N) * c.median \in Nat
  BY <1>1, <1>8, SMT
<1>12. (U + N) * d.median <= U * p.median
  BY <1>7, <1>9, <1>10, <1>11
<1>13. policy.floor * d.median <= policy.floor * c.median
  BY <1>1, Scaled
<1>14. policy.floor * d.median \in Nat /\ policy.floor * c.median \in Nat
  BY <1>1, SMT
<1>15. policy.floor * d.median <= Unit * o.median
  BY <1>4, <1>7, <1>13, <1>14
<1> QED
  BY <1>6, <1>12, <1>15, FastFor DEF U, N

---------------------------------------------------------------------------
(* Chains of promotions.                                                   *)

\* A kernel that takes its parent's place is not slower, and as quick only
\* if nothing is asked of it.
LEMMA OnePromotion ==
  ASSUME ThresholdTypeOK,
         NEW o \in Summary, NEW p \in Summary, NEW c \in Summary,
         TimingClass(o, p, c) = "fast"
  PROVE  c.median <= p.median /\ (c.median = p.median => Margin(o, p, c) = 0)
<1> DEFINE U == Unit * Unit
           M == Margin(o, p, c)
<1>1. Unit \in Nat \ {0} /\ p.median \in Nat \ {0} /\ c.median \in Nat \ {0}
  BY Fields, ThresholdAssumption DEF Summary
<1>2. U \in Nat \ {0}
  BY <1>1, SMT
<1>3. M \in Nat
  BY SlowIff
<1>4. (U + M) * c.median <= U * p.median
  BY FastFor
<1> HIDE DEF U, M
<1>5. /\ (U + M) * c.median = U * c.median + M * c.median
      /\ U * c.median \in Nat /\ M * c.median \in Nat /\ U * p.median \in Nat
  BY <1>1, <1>2, <1>3, SMT
<1>6. U * c.median <= U * p.median
  BY <1>4, <1>5
<1>7. c.median <= p.median
  BY <1>1, <1>2, <1>6, Cancelled
<1>8. ASSUME c.median = p.median PROVE M = 0
  BY <1>1, <1>2, <1>3, <1>4, <1>8, NoWayBack
<1> QED
  BY <1>7, <1>8 DEF M

\* A chain of n promotions: kernel i + 1 takes the place of kernel i, beside
\* a measurement of the original of its own.
Chain(n, m, o) == \A i \in 1..n : TimingClass(o[i], m[i], m[i + 1]) = "fast"

\* However long a chain of promotions is, no kernel in it is slower than an
\* earlier one; one that is as quick follows only where the contract asks for
\* no gain, so that no search goes in circles of any length.
ChainsDescend ==
  \A n \in Nat : \A m \in [1..(n + 1) -> Summary], o \in [1..n -> Summary] :
    Chain(n, m, o) =>
      \A j, k \in 1..(n + 1) : j < k =>
        /\ m[k].median <= m[j].median
        /\ m[k].median = m[j].median => \A i \in j..(k - 1) : Margin(o[i], m[i], m[i + 1]) = 0

LEMMA ChainsDescendNow == ThresholdTypeOK => ChainsDescend
<1> SUFFICES ASSUME ThresholdTypeOK, NEW n \in Nat,
                    NEW m \in [1..(n + 1) -> Summary], NEW o \in [1..n -> Summary],
                    Chain(n, m, o), NEW j \in 1..(n + 1), NEW k \in 1..(n + 1), j < k
             PROVE  /\ m[k].median <= m[j].median
                    /\ m[k].median = m[j].median =>
                         \A i \in j..(k - 1) : Margin(o[i], m[i], m[i + 1]) = 0
  BY DEF ChainsDescend
<1> DEFINE t(i) == m[i].median
           Asked(i) == Margin(o[i], m[i], m[i + 1]) # 0
<1>1. \A i \in 1..(n + 1) : t(i) \in Nat
  BY ThresholdAssumption DEF Summary
<1>2. \A i \in 1..n : t(i + 1) <= t(i) /\ (Asked(i) => t(i + 1) < t(i))
  <2> SUFFICES ASSUME NEW i \in 1..n PROVE t(i + 1) <= t(i) /\ (Asked(i) => t(i + 1) < t(i))
    OBVIOUS
  <2>1. /\ o[i] \in Summary /\ m[i] \in Summary /\ m[i + 1] \in Summary
        /\ i \in 1..(n + 1) /\ i + 1 \in 1..(n + 1)
    OBVIOUS
  <2>2. TimingClass(o[i], m[i], m[i + 1]) = "fast"
    BY DEF Chain
  <2>3. t(i + 1) <= t(i) /\ (t(i + 1) = t(i) => ~Asked(i))
    BY <2>1, <2>2, OnePromotion
  <2> HIDE DEF Asked
  <2> QED
    BY <1>1, <2>1, <2>3
<1> HIDE DEF t, Asked
<1>3. ASSUME NEW a \in 1..(n + 1), NEW b \in 1..(n + 1), a <= b
      PROVE  t(b) <= t(a)
  <2> DEFINE S == {x \in a..b : ~(t(x) <= t(a))}
  <2> SUFFICES S = {}
    BY <1>3
  <2> SUFFICES ASSUME S # {} PROVE FALSE
    OBVIOUS
  <2>1. S \in SUBSET Nat
    OBVIOUS
  <2>2. PICK x \in S : \A y \in S : x <= y
    BY <2>1, LeastNumber
  <2>3. x # a
    BY <1>1, <2>2
  <2>4. x - 1 \in a..b /\ x - 1 \in 1..n /\ (x - 1) + 1 = x
    BY <2>2, <2>3
  <2>5. t(x - 1) <= t(a)
    BY <2>2, <2>4
  <2>6. t(x) <= t(x - 1)
    BY <1>2, <2>4
  <2>7. t(x) \in Nat /\ t(x - 1) \in Nat /\ t(a) \in Nat
    BY <1>1, <2>2, <2>4
  <2> QED
    BY <2>2, <2>5, <2>6, <2>7
<1>4. t(k) <= t(j)
  BY <1>3
<1>5. ASSUME NEW i \in j..(k - 1), Asked(i)
      PROVE  t(k) < t(j)
  <2>1. i \in 1..n /\ i \in 1..(n + 1) /\ i + 1 \in 1..(n + 1) /\ j <= i /\ i + 1 <= k
    OBVIOUS
  <2>2. t(i) <= t(j) /\ t(i + 1) < t(i) /\ t(k) <= t(i + 1)
    BY <1>2, <1>3, <1>5, <2>1
  <2>3. t(i) \in Nat /\ t(i + 1) \in Nat /\ t(j) \in Nat /\ t(k) \in Nat
    BY <1>1, <2>1
  <2> QED
    BY <2>2, <2>3
<1>6. t(k) \in Nat /\ t(j) \in Nat
  BY <1>1
<1>7. t(k) = t(j) => \A i \in j..(k - 1) : ~Asked(i)
  BY <1>5, <1>6
<1> QED
  BY <1>4, <1>7 DEF t, Asked

LEMMA TypeHolds == ThresholdSpec => []ThresholdTypeOK
<1>1. ThresholdInit => ThresholdTypeOK
  BY DEF ThresholdInit, ThresholdTypeOK
<1>2. ThresholdTypeOK /\ [ThresholdNext]_thresholdVars => ThresholdTypeOK'
  BY DEF ThresholdTypeOK, ThresholdNext, thresholdVars, Summary
<1> QED
  BY <1>1, <1>2, PTL DEF ThresholdSpec

\* The code's comparison is the documented predicate, for every unit in which
\* the code's numbers are counted (gate.py evaluate;
\* references/acceptance-contract.md).
THEOREM PredicateAlways == ThresholdSpec => []MeetsThePredicate
BY TypeHolds, PredicateMet, PTL

\* No two kernels take each other's place on the same measurements, unless
\* they tie under a contract that asks for no gain (gate.py evaluate).
THEOREM OneWayAlways == ThresholdSpec => []PromotionIsOneWay
BY TypeHolds, OneWay, PTL

\* Chains of promotions of any length lead to quicker kernels (gate.py
\* evaluate).
THEOREM ChainsDescendAlways == ThresholdSpec => []ChainsDescend
BY TypeHolds, ChainsDescendNow, PTL

\* As quick and as steady as one that passes, or more so, passes (gate.py
\* evaluate).
THEOREM BetterIsNoWorseAlways == ThresholdSpec => BetterIsNoWorse
<1> DEFINE Better == /\ TimingClass(original, parent, candidate) = "fast"
                     /\ candidate'.median <= candidate.median
                     /\ candidate'.cv <= candidate.cv
                     => TimingClass(original, parent, candidate') = "fast"
<1>1. ThresholdTypeOK /\ [ThresholdNext]_thresholdVars => [Better]_thresholdVars
  <2> SUFFICES ASSUME ThresholdTypeOK, ThresholdNext PROVE Better
    OBVIOUS
  <2>1. original \in Summary /\ parent \in Summary /\ candidate \in Summary /\ candidate' \in Summary
    BY DEF ThresholdTypeOK, ThresholdNext
  <2> QED
    BY <2>1, BetterPasses
<1>2. BetterIsNoWorse <=> [][Better]_thresholdVars
  BY DEF BetterIsNoWorse
<1> HIDE DEF Better
<1> QED
  BY <1>1, <1>2, TypeHolds, PTL DEF ThresholdSpec
=============================================================================
