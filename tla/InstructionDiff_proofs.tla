----------------------- MODULE InstructionDiff_proofs -----------------------
(***************************************************************************)
(* What an instruction diff is worth, for instructions of any sizes, code  *)
(* of any length and windows anywhere.  The invariant is about the         *)
(* alignment: the matched places are in the same order in both codes.      *)
(*                                                                         *)
(* Induction over numbers is by the least one for which a claim fails      *)
(* (LeastNumber).                                                          *)
(***************************************************************************)
EXTENDS InstructionDiff, NumberFacts, FiniteSetTheorems, SequenceTheorems, TLAPS

LEMMA CodeFacts ==
  ASSUME NEW code \in Code
  PROVE  /\ code \in Seq(Text) /\ Len(code) \in 1..MaxLength /\ DOMAIN code = 1..Len(code)
         /\ code = [i \in 1..Len(code) |-> code[i]]
         /\ \A i \in 1..Len(code) : code[i] \in Text /\ Size[code[i]] \in Nat \ {0}
<1>1. PICK n \in 1..MaxLength : code \in [1..n -> Text]
  BY DEF Code
<1>2. code \in Seq(Text) /\ Len(code) = n
  BY <1>1, BoundsAssumption, SeqDef, LenProperties
<1> QED
  BY <1>1, <1>2, SizeAssumption

---------------------------------------------------------------------------
(* The alignment.                                                          *)

\* Region h is left of region g in both codes.
LeftOf(h, g) == h.a2 < g.a1 /\ h.b2 < g.b1

\* A pair of places that is on the same side of region g in both codes.
Beside(p, g) ==
  \/ p[1] < g.a1 /\ p[2] < g.b1
  \/ p[1] > g.a2 /\ p[2] > g.b2

Boxed(g) ==
  /\ g \in Region
  /\ 1 <= g.a1 /\ g.a1 <= g.a2 /\ g.a2 <= Len(before)
  /\ 1 <= g.b1 /\ g.b1 <= g.b2 /\ g.b2 <= Len(after)

Whole == [a1 |-> 1, a2 |-> Len(before), b1 |-> 1, b2 |-> Len(after)]

Coded == before \in Code /\ after \in Code

\* Only equal instructions are matched, and in their order.
OrderedMatches ==
  /\ \A p \in matched :
       /\ p = <<p[1], p[2]>>
       /\ p[1] \in 1..Len(before) /\ p[2] \in 1..Len(after)
       /\ before[p[1]] = after[p[2]]
  /\ \A p, q \in matched : p[1] < q[1] <=> p[2] < q[2]

\* The open regions are between the matches, and one after another.
OpenRegions ==
  /\ \A g \in regions : Boxed(g)
  /\ \A p \in matched, g \in regions : Beside(p, g)
  /\ \A g, h \in regions : g = h \/ LeftOf(g, h) \/ LeftOf(h, g)

\* Equal codes are matched as a whole, by the first run.
SameIsMatched ==
  before = after =>
    \/ regions = {Whole} /\ matched = {}
    \/ regions = {} /\ \A i \in 1..Len(before) : <<i, i>> \in matched

IInv == Coded /\ OrderedMatches /\ OpenRegions /\ SameIsMatched

LEMMA LongestRunExists ==
  ASSUME NEW runs, runs # {},
         \A r \in runs : r.a \in Nat /\ r.b \in Nat /\ r.size \in Nat /\ r.size <= MaxLength
  PROVE  LongestRun(runs) \in runs /\ \A q \in runs : Precedes(LongestRun(runs), q)
<1>1. PICK r1 \in runs : \A q \in runs : r1.size >= q.size
  <2> DEFINE S == {MaxLength - r.size : r \in runs}
  <2>1. S \in SUBSET Nat /\ S # {}
    BY BoundsAssumption
  <2>2. PICK m \in S : \A n \in S : m <= n
    BY <2>1, LeastNumber
  <2>3. PICK r \in runs : m = MaxLength - r.size
    BY <2>2
  <2>4. ASSUME NEW q \in runs PROVE r.size >= q.size
    <3>1. MaxLength - r.size <= MaxLength - q.size
      BY <2>2, <2>3
    <3>2. r.size \in Nat /\ q.size \in Nat
      OBVIOUS
    <3> QED
      BY <3>1, <3>2, BoundsAssumption
  <2> QED
    BY <2>4
<1>2. PICK r2 \in runs : r2.size = r1.size
                         /\ \A q \in runs : q.size = r1.size => r2.a <= q.a
  <2> DEFINE S == {r.a : r \in {r \in runs : r.size = r1.size}}
  <2>1. S \in SUBSET Nat /\ S # {}
    OBVIOUS
  <2>2. PICK m \in S : \A n \in S : m <= n
    BY <2>1, LeastNumber
  <2> QED
    BY <2>2
<1>3. PICK r3 \in runs : /\ r3.size = r1.size /\ r3.a = r2.a
                         /\ \A q \in runs : q.size = r1.size /\ q.a = r2.a => r3.b <= q.b
  <2> DEFINE S == {r.b : r \in {r \in runs : r.size = r1.size /\ r.a = r2.a}}
  <2>1. S \in SUBSET Nat /\ S # {}
    BY <1>2
  <2>2. PICK m \in S : \A n \in S : m <= n
    BY <2>1, LeastNumber
  <2> QED
    BY <2>2
<1>4. ASSUME NEW q \in runs PROVE Precedes(r3, q)
  <2>1. q.size <= r1.size
    BY <1>1
  <2>2. CASE q.size < r1.size
    BY <1>3, <2>2 DEF Precedes
  <2>3. CASE q.size = r1.size
    <3>1. r2.a <= q.a
      BY <1>2, <2>3
    <3>2. CASE r2.a < q.a
      BY <1>3, <2>3, <3>2 DEF Precedes
    <3>3. CASE r2.a = q.a
      BY <1>3, <2>3, <3>3 DEF Precedes
    <3> QED
      BY <3>1, <3>2, <3>3
  <2> QED
    BY <2>1, <2>2, <2>3
<1> QED
  BY <1>4 DEF LongestRun

\* A run lies in its region, and so does what it leaves of it.
LEMMA RunFacts ==
  ASSUME NEW g, Boxed(g), NEW r \in Runs(g)
  PROVE  /\ r.a \in Nat /\ r.b \in Nat /\ r.size \in Nat
         /\ r.size >= 1 /\ r.size <= MaxLength
         /\ g.a1 <= r.a /\ r.a + r.size - 1 <= g.a2
         /\ g.b1 <= r.b /\ r.b + r.size - 1 <= g.b2
         /\ \A n \in 0..(r.size - 1) : before[r.a + n] = after[r.b + n]
<1>1. r.a \in g.a1..g.a2 /\ r.b \in g.b1..g.b2 /\ r.size \in 1..MaxLength
  BY DEF Runs
<1>2. g.a1 \in Nat /\ g.a2 \in Nat /\ g.b1 \in Nat /\ g.b2 \in Nat
  BY DEF Boxed, Region
<1> QED
  BY <1>1, <1>2, BoundsAssumption DEF Runs

LEMMA ChosenRun ==
  ASSUME NEW g, Boxed(g), Runs(g) # {}
  PROVE  /\ LongestRun(Runs(g)) \in Runs(g)
         /\ \A q \in Runs(g) : Precedes(LongestRun(Runs(g)), q)
<1>1. \A r \in Runs(g) : r.a \in Nat /\ r.b \in Nat /\ r.size \in Nat /\ r.size <= MaxLength
  BY RunFacts
<1> QED
  BY <1>1, LongestRunExists

LEMMA PairFacts ==
  ASSUME NEW r, r.a \in Nat, r.b \in Nat, r.size \in Nat, NEW p \in Pairs(r)
  PROVE  \E n \in 0..(r.size - 1) : /\ p = <<r.a + n, r.b + n>>
                                    /\ p[1] = r.a + n /\ p[2] = r.b + n
  BY DEF Pairs

\* A run of s places from a on, between lo and hi.
LEMMA SpanFacts ==
  ASSUME NEW lo \in Nat, NEW hi \in Nat, NEW a \in Nat, NEW s \in Nat, NEW len \in Nat,
         1 <= lo, lo <= a, 1 <= s, a + s - 1 <= hi, hi <= len
  PROVE  /\ a - 1 \in Nat /\ a - 1 <= hi /\ a - 1 <= len /\ a - 1 < a
         /\ a + s \in Nat /\ 1 <= a + s /\ lo <= a + s
  OBVIOUS

LEMMA PlaceFacts ==
  ASSUME NEW lo \in Nat, NEW hi \in Nat, NEW a \in Nat, NEW s \in Nat, NEW len \in Nat,
         1 <= lo, lo <= a, 1 <= s, a + s - 1 <= hi, hi <= len, NEW n \in 0..(s - 1)
  PROVE  /\ a + n \in Nat /\ lo <= a + n /\ a + n <= hi /\ a + n \in 1..len
         /\ a <= a + n /\ a + n < a + s
  OBVIOUS

LEMMA LengthFacts ==
  ASSUME Coded
  PROVE  Len(before) \in Nat \ {0} /\ Len(after) \in Nat \ {0}
  BY CodeFacts, BoundsAssumption DEF Coded

LEMMA RestFacts ==
  ASSUME Coded, NEW g, Boxed(g), NEW r \in Runs(g), NEW h \in Rest(g, r)
  PROVE  /\ Boxed(h)
         /\ g.a1 <= h.a1 /\ h.a2 <= g.a2 /\ g.b1 <= h.b1 /\ h.b2 <= g.b2
         /\ \/ /\ h.a2 < r.a /\ h.b2 < r.b
               /\ h = [a1 |-> g.a1, a2 |-> r.a - 1, b1 |-> g.b1, b2 |-> r.b - 1]
            \/ /\ h.a1 >= r.a + r.size /\ h.b1 >= r.b + r.size
               /\ h = [a1 |-> r.a + r.size, a2 |-> g.a2, b1 |-> r.b + r.size, b2 |-> g.b2]
<1>1. /\ g.a1 \in Nat /\ g.a2 \in Nat /\ g.b1 \in Nat /\ g.b2 \in Nat
      /\ 1 <= g.a1 /\ g.a2 <= Len(before) /\ 1 <= g.b1 /\ g.b2 <= Len(after)
      /\ r.a \in Nat /\ r.b \in Nat /\ r.size \in Nat /\ r.size >= 1
      /\ g.a1 <= r.a /\ r.a + r.size - 1 <= g.a2
      /\ g.b1 <= r.b /\ r.b + r.size - 1 <= g.b2
  BY RunFacts DEF Boxed, Region
<1>2. /\ h.a1 <= h.a2 /\ h.b1 <= h.b2
      /\ h \in {[a1 |-> g.a1, a2 |-> r.a - 1, b1 |-> g.b1, b2 |-> r.b - 1],
                [a1 |-> r.a + r.size, a2 |-> g.a2, b1 |-> r.b + r.size, b2 |-> g.b2]}
  BY DEF Rest
<1>3. /\ r.a - 1 \in Nat /\ r.b - 1 \in Nat /\ r.a - 1 <= g.a2 /\ r.b - 1 <= g.b2
      /\ r.a - 1 < r.a /\ r.b - 1 < r.b
      /\ r.a + r.size \in Nat /\ r.b + r.size \in Nat
      /\ 1 <= r.a + r.size /\ 1 <= r.b + r.size
      /\ g.a1 <= r.a + r.size /\ g.b1 <= r.b + r.size
      /\ r.a - 1 <= Len(before) /\ r.b - 1 <= Len(after)
  <2>1. Len(before) \in Nat /\ Len(after) \in Nat
    BY LengthFacts
  <2>2. /\ r.a - 1 \in Nat /\ r.a - 1 <= g.a2 /\ r.a - 1 < r.a /\ r.a - 1 <= Len(before)
        /\ r.a + r.size \in Nat /\ 1 <= r.a + r.size /\ g.a1 <= r.a + r.size
    <3>1. /\ g.a1 \in Nat /\ g.a2 \in Nat /\ r.a \in Nat /\ r.size \in Nat /\ Len(before) \in Nat
          /\ 1 <= g.a1 /\ g.a1 <= r.a /\ 1 <= r.size
          /\ r.a + r.size - 1 <= g.a2 /\ g.a2 <= Len(before)
      BY <1>1, <2>1
    <3> QED
      BY ONLY <3>1, SpanFacts
  <2>3. /\ r.b - 1 \in Nat /\ r.b - 1 <= g.b2 /\ r.b - 1 < r.b /\ r.b - 1 <= Len(after)
        /\ r.b + r.size \in Nat /\ 1 <= r.b + r.size /\ g.b1 <= r.b + r.size
    <3>1. /\ g.b1 \in Nat /\ g.b2 \in Nat /\ r.b \in Nat /\ r.size \in Nat /\ Len(after) \in Nat
          /\ 1 <= g.b1 /\ g.b1 <= r.b /\ 1 <= r.size
          /\ r.b + r.size - 1 <= g.b2 /\ g.b2 <= Len(after)
      BY <1>1, <2>1
    <3> QED
      BY ONLY <3>1, SpanFacts
  <2> QED
    BY <2>2, <2>3
<1>4. g.a1 <= g.a1 /\ g.b1 <= g.b1 /\ g.a2 <= g.a2 /\ g.b2 <= g.b2
  BY <1>1
<1>9. r.a + r.size >= r.a + r.size /\ r.b + r.size >= r.b + r.size
  BY <1>3
<1>5. CASE h = [a1 |-> g.a1, a2 |-> r.a - 1, b1 |-> g.b1, b2 |-> r.b - 1]
  <2>1. h.a1 = g.a1 /\ h.a2 = r.a - 1 /\ h.b1 = g.b1 /\ h.b2 = r.b - 1
    BY <1>5
  <2>2. h \in Region
    BY <1>1, <1>3, <1>5 DEF Region
  <2>4. Boxed(h)
    BY <1>1, <1>2, <1>3, <2>1, <2>2 DEF Boxed
  <2>5. g.a1 <= h.a1 /\ h.a2 <= g.a2 /\ g.b1 <= h.b1 /\ h.b2 <= g.b2
    BY <1>3, <1>4, <2>1
  <2>6. h.a2 < r.a /\ h.b2 < r.b
    BY <1>3, <2>1
  <2> QED
    BY <1>5, <2>4, <2>5, <2>6
<1>6. CASE h = [a1 |-> r.a + r.size, a2 |-> g.a2, b1 |-> r.b + r.size, b2 |-> g.b2]
  <2>1. h.a1 = r.a + r.size /\ h.a2 = g.a2 /\ h.b1 = r.b + r.size /\ h.b2 = g.b2
    BY <1>6
  <2>2. h \in Region
    BY <1>1, <1>3, <1>6 DEF Region
  <2>3. 1 <= h.a1 /\ 1 <= h.b1 /\ g.a1 <= h.a1 /\ g.b1 <= h.b1
    BY <1>3, <2>1
  <2>4. Boxed(h)
    BY <1>1, <1>2, <2>1, <2>2, <2>3 DEF Boxed
  <2>5. h.a2 <= g.a2 /\ h.b2 <= g.b2 /\ h.a1 >= r.a + r.size /\ h.b1 >= r.b + r.size
    BY <1>4, <1>9, <2>1
  <2> QED
    BY <1>6, <2>3, <2>4, <2>5
<1> QED
  BY <1>2, <1>5, <1>6

\* The places that a run matches are in its region, and in order.
LEMMA PairsInside ==
  ASSUME Coded, NEW g, Boxed(g), NEW r \in Runs(g), NEW p \in Pairs(r)
  PROVE  /\ p = <<p[1], p[2]>> /\ p[1] \in Nat /\ p[2] \in Nat
         /\ g.a1 <= p[1] /\ p[1] <= g.a2 /\ g.b1 <= p[2] /\ p[2] <= g.b2
         /\ p[1] \in 1..Len(before) /\ p[2] \in 1..Len(after)
         /\ before[p[1]] = after[p[2]]
         /\ p[1] - r.a = p[2] - r.b
         /\ r.a <= p[1] /\ p[1] < r.a + r.size /\ r.b <= p[2] /\ p[2] < r.b + r.size
<1>1. /\ g.a1 \in Nat /\ g.a2 \in Nat /\ g.b1 \in Nat /\ g.b2 \in Nat
      /\ 1 <= g.a1 /\ g.a2 <= Len(before) /\ 1 <= g.b1 /\ g.b2 <= Len(after)
  BY DEF Boxed, Region
<1>2. /\ r.a \in Nat /\ r.b \in Nat /\ r.size \in Nat /\ r.size >= 1
      /\ g.a1 <= r.a /\ r.a + r.size - 1 <= g.a2
      /\ g.b1 <= r.b /\ r.b + r.size - 1 <= g.b2
      /\ \A n \in 0..(r.size - 1) : before[r.a + n] = after[r.b + n]
  BY RunFacts
<1>3. PICK n \in 0..(r.size - 1) : /\ p = <<r.a + n, r.b + n>>
                                   /\ p[1] = r.a + n /\ p[2] = r.b + n
  BY <1>2, PairFacts
<1>4. Len(before) \in Nat /\ Len(after) \in Nat
  BY LengthFacts
<1>5. before[p[1]] = after[p[2]]
  BY <1>2, <1>3
<1>6. /\ r.a + n \in Nat /\ g.a1 <= r.a + n /\ r.a + n <= g.a2 /\ r.a + n \in 1..Len(before)
      /\ r.a <= r.a + n /\ r.a + n < r.a + r.size
  BY <1>1, <1>2, <1>4, PlaceFacts
<1>7. /\ r.b + n \in Nat /\ g.b1 <= r.b + n /\ r.b + n <= g.b2 /\ r.b + n \in 1..Len(after)
      /\ r.b <= r.b + n /\ r.b + n < r.b + r.size
  BY <1>1, <1>2, <1>4, PlaceFacts
<1>8. (r.a + n) - r.a = (r.b + n) - r.b
  BY <1>2
<1>10. p = <<p[1], p[2]>>
  BY <1>3
<1> QED
  BY <1>3, <1>5, <1>6, <1>7, <1>8, <1>10

\* The first run of a code matched with itself is the whole of it.
LEMMA WholeRun ==
  ASSUME Coded, before = after
  PROVE  /\ Boxed(Whole) /\ Runs(Whole) # {}
         /\ LET r == LongestRun(Runs(Whole)) IN
            r.a = 1 /\ r.b = 1 /\ r.size = Len(before) /\ Rest(Whole, r) = {}
<1> DEFINE L == Len(before)
           r == LongestRun(Runs(Whole))
           q == [a |-> 1, b |-> 1, size |-> L]
<1>1. L \in 1..MaxLength /\ L \in Nat \ {0} /\ Len(after) = L
  BY CodeFacts, BoundsAssumption DEF Coded
<1>2. Whole.a1 = 1 /\ Whole.a2 = L /\ Whole.b1 = 1 /\ Whole.b2 = L
  BY <1>1 DEF Whole
<1>3. Boxed(Whole)
  BY <1>1, <1>2 DEF Boxed, Region, Whole
<1> HIDE DEF L
<1>4. q \in Runs(Whole)
  <2>1. q \in [a : Whole.a1..Whole.a2, b : Whole.b1..Whole.b2, size : 1..MaxLength]
    BY <1>1, <1>2
  <2>2. q.a = 1 /\ q.b = 1 /\ q.size = L
    OBVIOUS
  <2>3. q.a + q.size - 1 <= Whole.a2 /\ q.b + q.size - 1 <= Whole.b2
    BY <1>1, <1>2, <2>2
  <2>4. \A n \in 0..(q.size - 1) : before[q.a + n] = after[q.b + n]
    BY <2>2
  <2> QED
    BY <2>1, <2>3, <2>4 DEF Runs
<1>5. r \in Runs(Whole) /\ Precedes(r, q)
  BY <1>3, <1>4, ChosenRun
<1> HIDE DEF r
<1>6. /\ r.a \in Nat /\ r.b \in Nat /\ r.size \in Nat
      /\ 1 <= r.a /\ r.a + r.size - 1 <= L
      /\ 1 <= r.b /\ r.b + r.size - 1 <= L
  BY <1>2, <1>3, <1>5, RunFacts
<1>7. r.size >= L
  <2>1. q.size = L
    OBVIOUS
  <2> HIDE DEF q
  <2>2. r.size > q.size \/ r.size = q.size
    BY <1>5 DEF Precedes
  <2> QED
    BY <1>1, <1>6, <2>1, <2>2
<1>8. r.size = L /\ r.a = 1 /\ r.b = 1
  BY <1>1, <1>6, <1>7
<1>9. ASSUME NEW h \in Rest(Whole, r) PROVE FALSE
  <2>1. /\ h.a1 <= h.a2
        /\ h \in {[a1 |-> Whole.a1, a2 |-> r.a - 1, b1 |-> Whole.b1, b2 |-> r.b - 1],
                  [a1 |-> r.a + r.size, a2 |-> Whole.a2, b1 |-> r.b + r.size, b2 |-> Whole.b2]}
    BY <1>9 DEF Rest
  <2>2. (h.a1 = 1 /\ h.a2 = r.a - 1) \/ (h.a1 = r.a + r.size /\ h.a2 = L)
    BY <1>2, <2>1
  <2>3. CASE h.a1 = 1 /\ h.a2 = r.a - 1
    BY <1>8, <2>1, <2>3
  <2>4. CASE h.a1 = r.a + r.size /\ h.a2 = L
    BY <1>1, <1>8, <2>1, <2>4
  <2> QED
    BY <2>2, <2>3, <2>4
<1> QED
  BY <1>3, <1>4, <1>8, <1>9 DEF r, L

\* What is beside a region is beside each part of it, and before or after
\* each pair of places in it.
LEMMA BesideParts ==
  ASSUME NEW g, g.a1 \in Nat, g.a2 \in Nat, g.b1 \in Nat, g.b2 \in Nat,
         NEW p, p[1] \in Nat, p[2] \in Nat, Beside(p, g)
  PROVE  /\ \A h : /\ h.a1 \in Nat /\ h.a2 \in Nat /\ h.b1 \in Nat /\ h.b2 \in Nat
                   /\ g.a1 <= h.a1 /\ h.a2 <= g.a2 /\ g.b1 <= h.b1 /\ h.b2 <= g.b2
                   => Beside(p, h)
         /\ \A q : /\ q[1] \in Nat /\ q[2] \in Nat
                   /\ g.a1 <= q[1] /\ q[1] <= g.a2 /\ g.b1 <= q[2] /\ q[2] <= g.b2
                   => /\ p[1] < q[1] <=> p[2] < q[2]
                      /\ q[1] < p[1] <=> q[2] < p[2]
<1>1. CASE p[1] < g.a1 /\ p[2] < g.b1
  <2>1. ASSUME NEW h, h.a1 \in Nat, h.b1 \in Nat, g.a1 <= h.a1, g.b1 <= h.b1
        PROVE  Beside(p, h)
    <3>1. p[1] < h.a1 /\ p[2] < h.b1
      BY <1>1, <2>1
    <3> QED
      BY <3>1 DEF Beside
  <2>2. ASSUME NEW q, q[1] \in Nat, q[2] \in Nat, g.a1 <= q[1], g.b1 <= q[2]
        PROVE  p[1] < q[1] /\ p[2] < q[2] /\ ~(q[1] < p[1]) /\ ~(q[2] < p[2])
    BY <1>1, <2>2
  <2> QED
    BY <2>1, <2>2
<1>2. CASE p[1] > g.a2 /\ p[2] > g.b2
  <2>1. ASSUME NEW h, h.a2 \in Nat, h.b2 \in Nat, h.a2 <= g.a2, h.b2 <= g.b2
        PROVE  Beside(p, h)
    <3>1. p[1] > h.a2 /\ p[2] > h.b2
      BY <1>2, <2>1
    <3> QED
      BY <3>1 DEF Beside
  <2>2. ASSUME NEW q, q[1] \in Nat, q[2] \in Nat, q[1] <= g.a2, q[2] <= g.b2
        PROVE  q[1] < p[1] /\ q[2] < p[2] /\ ~(p[1] < q[1]) /\ ~(p[2] < q[2])
    BY <1>2, <2>2
  <2> QED
    BY <2>1, <2>2
<1> QED
  BY <1>1, <1>2 DEF Beside

LEMMA BoxedPlaces ==
  ASSUME NEW g, Boxed(g)
  PROVE  g.a1 \in Nat /\ g.a2 \in Nat /\ g.b1 \in Nat /\ g.b2 \in Nat
  BY DEF Boxed, Region

\* Two pairs of one run are in order.
LEMMA PairsInOrder ==
  ASSUME Coded, NEW g, Boxed(g), NEW r \in Runs(g), NEW p \in Pairs(r), NEW q \in Pairs(r)
  PROVE  p[1] < q[1] <=> p[2] < q[2]
<1>1. /\ p[1] \in Nat /\ p[2] \in Nat /\ p[1] - r.a = p[2] - r.b
      /\ q[1] \in Nat /\ q[2] \in Nat /\ q[1] - r.a = q[2] - r.b
  BY PairsInside
<1>2. r.a \in Nat /\ r.b \in Nat
  BY RunFacts
<1> QED
  BY <1>1, <1>2

\* A match of a region keeps the order of the matches.
LEMMA AlignKeepsOrder ==
  ASSUME Coded, OrderedMatches, OpenRegions, NEW g \in regions, NEW r \in Runs(g),
         matched' = matched \cup Pairs(r), UNCHANGED <<before, after>>
  PROVE  OrderedMatches'
<1>1. Boxed(g)
  BY DEF OpenRegions
<1>2. \A p \in Pairs(r) :
        /\ p = <<p[1], p[2]>> /\ p[1] \in Nat /\ p[2] \in Nat
        /\ g.a1 <= p[1] /\ p[1] <= g.a2 /\ g.b1 <= p[2] /\ p[2] <= g.b2
        /\ p[1] \in 1..Len(before) /\ p[2] \in 1..Len(after)
        /\ before[p[1]] = after[p[2]]
  BY <1>1, PairsInside
<1>3. \A p \in matched : p[1] \in Nat /\ p[2] \in Nat /\ Beside(p, g)
  BY LengthFacts DEF OrderedMatches, OpenRegions
<1>4. ASSUME NEW p \in matched'
      PROVE  /\ p = <<p[1], p[2]>>
             /\ p[1] \in 1..Len(before) /\ p[2] \in 1..Len(after)
             /\ before[p[1]] = after[p[2]]
  BY <1>2 DEF OrderedMatches
<1>5. ASSUME NEW p \in matched', NEW q \in matched' PROVE p[1] < q[1] <=> p[2] < q[2]
  <2>1. CASE p \in matched /\ q \in matched
    BY <2>1 DEF OrderedMatches
  <2>2. CASE p \in Pairs(r) /\ q \in Pairs(r)
    BY <1>1, <2>2, PairsInOrder
  <2>3. CASE p \in matched /\ q \in Pairs(r)
    BY <1>1, <1>2, <1>3, <2>3, BesideParts, BoxedPlaces
  <2>4. CASE p \in Pairs(r) /\ q \in matched
    BY <1>1, <1>2, <1>3, <2>4, BesideParts, BoxedPlaces
  <2> QED
    BY <2>1, <2>2, <2>3, <2>4
<1> QED
  BY <1>4, <1>5 DEF OrderedMatches

\* Regions of which one is left of the other stay so when they shrink.
LEMMA LeftOfParts ==
  ASSUME NEW g, g.a1 \in Nat, g.a2 \in Nat, g.b1 \in Nat, g.b2 \in Nat,
         NEW h, h.a1 \in Nat, h.a2 \in Nat, h.b1 \in Nat, h.b2 \in Nat,
         NEW k, k.a1 \in Nat, k.a2 \in Nat, k.b1 \in Nat, k.b2 \in Nat,
         g.a1 <= h.a1, h.a2 <= g.a2, g.b1 <= h.b1, h.b2 <= g.b2
  PROVE  /\ LeftOf(k, g) => LeftOf(k, h)
         /\ LeftOf(g, k) => LeftOf(h, k)
<1>1. ASSUME LeftOf(k, g) PROVE LeftOf(k, h)
  BY <1>1 DEF LeftOf
<1>2. ASSUME LeftOf(g, k) PROVE LeftOf(h, k)
  BY <1>2 DEF LeftOf
<1> QED
  BY <1>1, <1>2

\* What a run leaves of its region is on its sides.
LEMMA RestBeside ==
  ASSUME Coded, NEW g, Boxed(g), NEW r \in Runs(g)
  PROVE  /\ \A h \in Rest(g, r), p \in Pairs(r) : Beside(p, h)
         /\ \A h, k \in Rest(g, r) : h = k \/ LeftOf(h, k) \/ LeftOf(k, h)
<1> DEFINE Left(h) == /\ h.a2 < r.a /\ h.b2 < r.b
                      /\ h = [a1 |-> g.a1, a2 |-> r.a - 1, b1 |-> g.b1, b2 |-> r.b - 1]
           Right(h) == /\ h.a1 >= r.a + r.size /\ h.b1 >= r.b + r.size
                       /\ h = [a1 |-> r.a + r.size, a2 |-> g.a2, b1 |-> r.b + r.size, b2 |-> g.b2]
<1>1. r.a \in Nat /\ r.b \in Nat /\ r.size \in Nat /\ r.size >= 1
  BY RunFacts
<1>2. \A h \in Rest(g, r) : Boxed(h) /\ (Left(h) \/ Right(h))
  BY RestFacts
<1>3. \A h \in Rest(g, r) : h.a1 \in Nat /\ h.a2 \in Nat /\ h.b1 \in Nat /\ h.b2 \in Nat
  BY <1>2, BoxedPlaces
<1>4. ASSUME NEW h \in Rest(g, r), NEW p \in Pairs(r) PROVE Beside(p, h)
  <2>1. /\ p[1] \in Nat /\ p[2] \in Nat
        /\ r.a <= p[1] /\ p[1] < r.a + r.size /\ r.b <= p[2] /\ p[2] < r.b + r.size
    BY PairsInside
  <2>2. CASE Left(h)
    <3>1. h.a2 < r.a /\ h.b2 < r.b
      BY <2>2
    <3>2. p[1] > h.a2 /\ p[2] > h.b2
      BY <1>1, <1>3, <2>1, <3>1
    <3> QED
      BY <3>2 DEF Beside
  <2>3. CASE Right(h)
    <3>1. h.a1 >= r.a + r.size /\ h.b1 >= r.b + r.size
      BY <2>3
    <3>2. p[1] < h.a1 /\ p[2] < h.b1
      BY <1>1, <1>3, <2>1, <3>1
    <3> QED
      BY <3>2 DEF Beside
  <2> QED
    BY <1>2, <2>2, <2>3
<1>5. ASSUME NEW h \in Rest(g, r), NEW k \in Rest(g, r), Left(h), Right(k)
      PROVE  LeftOf(h, k)
  <2>1. h.a2 < r.a /\ h.b2 < r.b /\ k.a1 >= r.a + r.size /\ k.b1 >= r.b + r.size
    BY <1>5
  <2> QED
    BY <1>1, <1>3, <2>1 DEF LeftOf
<1>6. ASSUME NEW h \in Rest(g, r), NEW k \in Rest(g, r)
      PROVE  h = k \/ LeftOf(h, k) \/ LeftOf(k, h)
  BY <1>2, <1>5
<1> QED
  BY <1>4, <1>6

\* Once a region is matched, the others and its rest are the open ones.
LEMMA AlignKeepsRegions ==
  ASSUME Coded, OrderedMatches, OpenRegions, NEW g \in regions, NEW r \in Runs(g),
         matched' = matched \cup Pairs(r), UNCHANGED <<before, after>>,
         regions' = (regions \ {g}) \cup Rest(g, r)
  PROVE  OpenRegions'
<1>1. Boxed(g)
  BY DEF OpenRegions
<1>2. \A p \in matched : p[1] \in Nat /\ p[2] \in Nat /\ Beside(p, g)
  BY LengthFacts DEF OrderedMatches, OpenRegions
<1>3. \A h \in Rest(g, r) : /\ Boxed(h)
                            /\ g.a1 <= h.a1 /\ h.a2 <= g.a2 /\ g.b1 <= h.b1 /\ h.b2 <= g.b2
  BY <1>1, RestFacts
<1>4. \A h \in regions' : Boxed(h)
  BY <1>3 DEF OpenRegions
<1>5. \A p \in Pairs(r) : /\ p[1] \in Nat /\ p[2] \in Nat
                          /\ g.a1 <= p[1] /\ p[1] <= g.a2 /\ g.b1 <= p[2] /\ p[2] <= g.b2
  BY <1>1, PairsInside
<1>6. ASSUME NEW p \in matched', NEW h \in regions' PROVE Beside(p, h)
  <2>1. CASE p \in matched /\ h \in regions
    BY <2>1 DEF OpenRegions
  <2>2. CASE p \in matched /\ h \in Rest(g, r)
    BY <1>1, <1>2, <1>3, <2>2, BesideParts, BoxedPlaces
  <2>3. CASE p \in Pairs(r) /\ h \in regions \ {g}
    <3>1. LeftOf(g, h) \/ LeftOf(h, g)
      BY <2>3 DEF OpenRegions
    <3>2. h.a1 \in Nat /\ h.a2 \in Nat /\ h.b1 \in Nat /\ h.b2 \in Nat
      BY <1>4, BoxedPlaces
    <3>3. g.a1 \in Nat /\ g.a2 \in Nat /\ g.b1 \in Nat /\ g.b2 \in Nat
      BY <1>1, BoxedPlaces
    <3>4. /\ p[1] \in Nat /\ p[2] \in Nat
          /\ g.a1 <= p[1] /\ p[1] <= g.a2 /\ g.b1 <= p[2] /\ p[2] <= g.b2
      BY <1>5, <2>3
    <3>5. CASE LeftOf(g, h)
      <4>1. g.a2 < h.a1 /\ g.b2 < h.b1
        BY <3>5 DEF LeftOf
      <4>2. p[1] < h.a1 /\ p[2] < h.b1
        BY <3>2, <3>3, <3>4, <4>1
      <4> QED
        BY <4>2 DEF Beside
    <3>6. CASE LeftOf(h, g)
      <4>1. h.a2 < g.a1 /\ h.b2 < g.b1
        BY <3>6 DEF LeftOf
      <4>2. p[1] > h.a2 /\ p[2] > h.b2
        BY <3>2, <3>3, <3>4, <4>1
      <4> QED
        BY <4>2 DEF Beside
    <3> QED
      BY <3>1, <3>5, <3>6
  <2>4. CASE p \in Pairs(r) /\ h \in Rest(g, r)
    BY <1>1, <2>4, RestBeside
  <2> QED
    BY <2>1, <2>2, <2>3, <2>4
<1>7. ASSUME NEW h \in Rest(g, r), NEW k \in regions \ {g}
      PROVE  LeftOf(h, k) \/ LeftOf(k, h)
  <2>1. LeftOf(g, k) \/ LeftOf(k, g)
    BY <1>7 DEF OpenRegions
  <2>2. Boxed(h) /\ Boxed(k)
    BY <1>3, <1>4
  <2> QED
    BY <1>1, <1>3, <2>1, <2>2, LeftOfParts, BoxedPlaces
<1>8. ASSUME NEW h \in regions', NEW k \in regions'
      PROVE  h = k \/ LeftOf(h, k) \/ LeftOf(k, h)
  <2>1. CASE h \in regions \ {g} /\ k \in regions \ {g}
    BY <2>1 DEF OpenRegions
  <2>2. CASE h \in Rest(g, r) /\ k \in Rest(g, r)
    BY <1>1, <2>2, RestBeside
  <2> QED
    BY <1>7, <2>1, <2>2
<1>9. \A h : Boxed(h)' <=> Boxed(h)
  BY DEF Boxed
<1> QED
  BY <1>4, <1>6, <1>8, <1>9 DEF OpenRegions, LeftOf, Beside

\* Equal codes: one match, of everything.
LEMMA AlignKeepsSame ==
  ASSUME IInv, Align
  PROVE  SameIsMatched'
<1> SUFFICES ASSUME (before = after)'
             PROVE  (regions = {} /\ \A i \in 1..Len(before) : <<i, i>> \in matched)'
  BY DEF SameIsMatched
<1>1. before = after /\ before' = before /\ after' = after /\ Coded
  BY DEF Align, IInv
<1>2. PICK g \in regions :
        LET r == LongestRun(Runs(g)) IN
        IF Runs(g) = {}
        THEN regions' = regions \ {g} /\ UNCHANGED matched
        ELSE /\ matched' = matched \cup Pairs(r)
             /\ regions' = (regions \ {g}) \cup Rest(g, r)
  BY DEF Align
<1>3. regions = {Whole} /\ matched = {}
  BY <1>1, <1>2 DEF IInv, SameIsMatched
<1>4. g = Whole
  BY <1>2, <1>3
<1> DEFINE r == LongestRun(Runs(Whole))
<1>5. r.a = 1 /\ r.b = 1 /\ r.size = Len(before) /\ Rest(Whole, r) = {} /\ Runs(Whole) # {}
  BY <1>1, WholeRun
<1>6. matched' = Pairs(r) /\ regions' = {}
  BY <1>2, <1>3, <1>4, <1>5
<1> HIDE DEF r
<1>7. ASSUME NEW i \in 1..Len(before) PROVE <<i, i>> \in Pairs(r)
  <2>1. Len(before) \in Nat
    BY <1>1, LengthFacts
  <2>2. i - 1 \in 0..(r.size - 1) /\ r.a + (i - 1) = i /\ r.b + (i - 1) = i
    BY <1>5, <2>1
  <2> QED
    BY <2>2 DEF Pairs
<1> QED
  BY <1>1, <1>6, <1>7

LEMMA InitHolds == DiffInit => IInv
<1> SUFFICES ASSUME DiffInit PROVE IInv
  OBVIOUS
<1>1. Coded /\ matched = {} /\ regions = {Whole}
  BY DEF DiffInit, Coded, Whole
<1>2. Len(before) \in Nat \ {0} /\ Len(after) \in Nat \ {0}
  BY <1>1, LengthFacts
<1>3. /\ Whole.a1 = 1 /\ Whole.a2 = Len(before) /\ Whole.b1 = 1 /\ Whole.b2 = Len(after)
      /\ Whole \in Region
  BY <1>2 DEF Whole, Region
<1>4. Boxed(Whole)
  BY <1>2, <1>3 DEF Boxed
<1> QED
  BY <1>1, <1>4 DEF IInv, OrderedMatches, OpenRegions, SameIsMatched

LEMMA StepKeeps ==
  ASSUME IInv, [DiffNext]_diffVars
  PROVE  IInv'
<1>1. CASE UNCHANGED diffVars
  BY <1>1 DEF diffVars, IInv, Coded, OrderedMatches, OpenRegions, SameIsMatched,
              Boxed, Whole, LeftOf, Beside
<1>2. CASE Align
  <2>1. UNCHANGED <<before, after>> /\ Coded /\ OrderedMatches /\ OpenRegions
    BY <1>2 DEF Align, IInv
  <2>2. Coded'
    BY <2>1 DEF Coded
  <2>3. SameIsMatched'
    BY <1>2, AlignKeepsSame
  <2>4. PICK g \in regions :
          LET r == LongestRun(Runs(g)) IN
          IF Runs(g) = {}
          THEN regions' = regions \ {g} /\ UNCHANGED matched
          ELSE /\ matched' = matched \cup Pairs(r)
               /\ regions' = (regions \ {g}) \cup Rest(g, r)
    BY <1>2 DEF Align
  <2>5. CASE Runs(g) = {}
    <3>1. regions' \subseteq regions /\ matched' = matched
      BY <2>4, <2>5
    <3> QED
      BY <2>1, <2>2, <2>3, <3>1
      DEF IInv, OrderedMatches, OpenRegions, Boxed, LeftOf, Beside
  <2>6. CASE Runs(g) # {}
    <3>1. PICK r : /\ r = LongestRun(Runs(g))
                   /\ matched' = matched \cup Pairs(r)
                   /\ regions' = (regions \ {g}) \cup Rest(g, r)
      BY <2>4, <2>6
    <3>2. r \in Runs(g)
      BY <2>1, <2>6, <3>1, ChosenRun DEF OpenRegions
    <3>3. OrderedMatches' /\ OpenRegions'
      BY <2>1, <3>1, <3>2, AlignKeepsOrder, AlignKeepsRegions
    <3> QED
      BY <2>2, <2>3, <3>3 DEF IInv
  <2> QED
    BY <2>5, <2>6
<1> QED
  BY <1>1, <1>2 DEF DiffNext

LEMMA Invariant == DiffSpec => []IInv
<1>1. IInv /\ [DiffNext]_diffVars => IInv'
  BY StepKeeps
<1> QED
  BY InitHolds, <1>1, PTL DEF DiffSpec

---------------------------------------------------------------------------
(* Order-preserving relations.                                             *)

\* A relation between 1..n and 1..k that keeps the order both ways, and in
\* which the first p of the one and the first q of the other all appear, is
\* the identity as far as both go.
LEMMA PrefixIsIdentity ==
  ASSUME NEW n \in Nat, NEW k \in Nat, NEW M \in SUBSET ((1..n) \X (1..k)),
         \A s, t \in M : s[1] < t[1] <=> s[2] < t[2],
         NEW p \in 0..n, NEW q \in 0..k,
         \A i \in 1..p : \E s \in M : s[1] = i,
         \A j \in 1..q : \E s \in M : s[2] = j
  PROVE  \A i \in 1..p : i <= q => <<i, i>> \in M
<1> DEFINE Bad == {i \in 1..p : i <= q /\ <<i, i>> \notin M}
<1> SUFFICES ASSUME Bad # {} PROVE FALSE
  OBVIOUS
<1>1. PICK i \in Bad : \A b \in Bad : i <= b
  <2>1. Bad \in SUBSET Nat
    OBVIOUS
  <2> HIDE DEF Bad
  <2> QED
    BY <2>1, LeastNumber
<1>2. \A h \in 1..(i - 1) : <<h, h>> \in M
  <2> SUFFICES ASSUME NEW h \in 1..(i - 1), <<h, h>> \notin M PROVE FALSE
    OBVIOUS
  <2>1. h \in Nat /\ h < i /\ h \in 1..p /\ h <= q
    OBVIOUS
  <2>2. h \in Bad
    BY <2>1
  <2> QED
    BY <1>1, <2>1, <2>2
<1>3. PICK s \in M : s[1] = i
  OBVIOUS
<1>4. i \in 1..q
  OBVIOUS
<1>5. PICK t \in M : t[2] = i
  BY <1>4
<1>6. s[1] \in Nat /\ s[2] \in 1..k /\ t[1] \in 1..n /\ t[2] \in Nat /\ i \in Nat
      /\ s = <<s[1], s[2]>> /\ t = <<t[1], t[2]>>
  OBVIOUS
<1>7. s[2] # i /\ t[1] # i
  BY <1>1, <1>3, <1>5, <1>6
<1>8. ~(s[2] < i)
  <2> SUFFICES ASSUME s[2] < i PROVE FALSE
    OBVIOUS
  <2>1. <<s[2], s[2]>> \in M
    BY <1>2, <1>6
  <2> QED
    BY <1>3, <1>6, <2>1
<1>9. ~(t[1] < i)
  <2> SUFFICES ASSUME t[1] < i PROVE FALSE
    OBVIOUS
  <2>1. <<t[1], t[1]>> \in M
    BY <1>2, <1>6
  <2> QED
    BY <1>5, <1>6, <2>1
<1>10. s[1] < t[1] /\ t[2] < s[2]
  BY <1>3, <1>5, <1>6, <1>7, <1>8, <1>9
<1> QED
  BY <1>6, <1>10

---------------------------------------------------------------------------
(* Addresses.                                                              *)

LEMMA UpToFacts ==
  ASSUME NEW s \in Nat
  PROVE  IsFiniteSet(1..s) /\ Cardinality(1..s) = s
<1>1. /\ IsFiniteSet(1..s)
      /\ Cardinality(1..s) = IF 1 > s THEN 0 ELSE s - 1 + 1
  BY FS_Interval
<1> QED
  BY <1>1

\* An address is a number, and the next one is behind the instruction.
LEMMA PrecedingFinite ==
  ASSUME NEW code \in Code, NEW i \in Nat, i <= Len(code) + 1
  PROVE  IsFiniteSet(Preceding(code, i)) /\ Pc(code, i) \in Nat
<1> DEFINE S == {{k} \X (1..Size[code[k]]) : k \in 1..(i - 1)}
<1>1. Len(code) \in Nat /\ \A k \in 1..(i - 1) : Size[code[k]] \in Nat
  <2>1. Len(code) \in Nat /\ \A k \in 1..Len(code) : Size[code[k]] \in Nat
    BY CodeFacts, BoundsAssumption
  <2>2. \A k \in 1..(i - 1) : k \in 1..Len(code)
    BY <2>1
  <2> QED
    BY <2>1, <2>2
<1>2. \A k \in 1..(i - 1) : IsFiniteSet({k} \X (1..Size[code[k]]))
  <2> SUFFICES ASSUME NEW k \in 1..(i - 1) PROVE IsFiniteSet({k} \X (1..Size[code[k]]))
    OBVIOUS
  <2>1. IsFiniteSet({k})
    BY FS_Singleton
  <2>2. Size[code[k]] \in Nat
    BY <1>1
  <2>3. IsFiniteSet(1..Size[code[k]])
    BY <2>2, UpToFacts
  <2> QED
    BY <2>1, <2>3, FS_Product
<1>3. IsFiniteSet(S)
  <2>1. IsFiniteSet(1..(i - 1))
    BY FS_Interval
  <2> DEFINE f == [k \in 1..(i - 1) |-> {k} \X (1..Size[code[k]])]
  <2>2. f \in Surjection(1..(i - 1), S)
    BY DEF Surjection
  <2> HIDE DEF f, S
  <2> QED
    BY <2>1, <2>2, FS_Surjection
<1>4. IsFiniteSet(UNION S)
  <2>1. \A T \in S : IsFiniteSet(T)
    BY <1>2
  <2> HIDE DEF S
  <2> QED
    BY <1>3, <2>1, FS_UNION
<1>5. IsFiniteSet(Preceding(code, i))
  BY <1>4 DEF Preceding
<1> QED
  BY <1>5, FS_CardinalityType DEF Pc

LEMMA PcOfNext ==
  ASSUME NEW code \in Code, NEW i \in 1..Len(code)
  PROVE  Pc(code, i + 1) = Pc(code, i) + Size[code[i]]
<1> DEFINE S == {i} \X (1..Size[code[i]])
<1>1. Len(code) \in Nat /\ i \in Nat /\ i <= Len(code) + 1 /\ i + 1 \in Nat
      /\ (i + 1) - 1 = i /\ 1..i = 1..(i - 1) \cup {i} /\ Size[code[i]] \in Nat
  BY CodeFacts, BoundsAssumption
<1>2. IsFiniteSet(Preceding(code, i)) /\ Pc(code, i) \in Nat
  BY <1>1, PrecedingFinite
<1>3. IsFiniteSet(S) /\ Cardinality(S) = Size[code[i]]
  <2>1. IsFiniteSet({i}) /\ Cardinality({i}) = 1
    BY FS_Singleton
  <2>2. IsFiniteSet(1..Size[code[i]]) /\ Cardinality(1..Size[code[i]]) = Size[code[i]]
    BY <1>1, UpToFacts
  <2>3. IsFiniteSet(S) /\ Cardinality(S) = Cardinality({i}) * Cardinality(1..Size[code[i]])
    BY <2>1, <2>2, FS_Product
  <2> QED
    BY <1>1, <2>1, <2>2, <2>3
<1>4. Preceding(code, i + 1) = Preceding(code, i) \cup S
  BY <1>1 DEF Preceding
<1>5. Preceding(code, i) \cap S = {}
  BY <1>1 DEF Preceding
<1> HIDE DEF S
<1>6. Cardinality(Preceding(code, i) \cap S) = 0
  BY <1>5, FS_EmptySet
<1>7. Cardinality(Preceding(code, i) \cup S) =
        Cardinality(Preceding(code, i)) + Cardinality(S) - Cardinality(Preceding(code, i) \cap S)
  BY <1>2, <1>3, FS_Union
<1>8. Pc(code, i + 1) = Pc(code, i) + Cardinality(S) - 0
  BY <1>4, <1>6, <1>7 DEF Pc
<1> QED
  BY <1>1, <1>2, <1>3, <1>8

\* Addresses increase.
LEMMA PcIncreases ==
  ASSUME NEW code \in Code, NEW i \in 1..Len(code), NEW j \in 1..(Len(code) + 1), i < j
  PROVE  Pc(code, i) < Pc(code, j)
<1>1. Len(code) \in Nat /\ i \in Nat /\ i <= Len(code) + 1 /\ j \in Nat /\ j <= Len(code) + 1
      /\ i \in 1..(j - 1) /\ i \notin 1..(i - 1) /\ 1..(i - 1) \subseteq 1..(j - 1)
  BY CodeFacts, BoundsAssumption
<1>2. 1 \in 1..Size[code[i]]
  BY CodeFacts
<1>3. Preceding(code, i) \subseteq Preceding(code, j)
  BY <1>1 DEF Preceding
<1>4. <<i, 1>> \in Preceding(code, j) /\ <<i, 1>> \notin Preceding(code, i)
  BY <1>1, <1>2 DEF Preceding
<1>5. /\ IsFiniteSet(Preceding(code, j))
      /\ Pc(code, i) \in Nat /\ Pc(code, j) \in Nat
  BY <1>1, PrecedingFinite
<1>6. Pc(code, i) <= Pc(code, j) /\ Pc(code, i) # Pc(code, j)
  BY <1>3, <1>4, <1>5, FS_Subset DEF Pc
<1> QED
  BY <1>5, <1>6

\* The same instructions before a place put it at the same address.
LEMMA PcOfPrefix ==
  ASSUME NEW c, NEW d, NEW i \in Nat, \A k \in 1..(i - 1) : c[k] = d[k]
  PROVE  Pc(c, i) = Pc(d, i)
<1>1. Preceding(c, i) = Preceding(d, i)
  BY DEF Preceding
<1> QED
  BY <1>1 DEF Pc

\* The same instructions from a place to the end of codes of the same length
\* put it at the same address.
LEMMA PcOfSuffix ==
  ASSUME NEW c \in Code, NEW d \in Code, Words(c) = Words(d),
         NEW p \in Nat, p <= Len(c), p <= Len(d),
         \A i \in 0..(p - 1) : c[Len(c) - i] = d[Len(d) - i]
  PROVE  \A i \in 0..p : Pc(c, (Len(c) + 1) - i) = Pc(d, (Len(d) + 1) - i)
<1> DEFINE n == Len(c)
           k == Len(d)
           Bad == {i \in 0..p : Pc(c, (n + 1) - i) # Pc(d, (k + 1) - i)}
<1>1. n \in Nat /\ k \in Nat
  BY CodeFacts, BoundsAssumption
<1> SUFFICES ASSUME Bad # {} PROVE FALSE
  OBVIOUS
<1>2. PICK i \in Bad : \A b \in Bad : i <= b
  <2>1. Bad \in SUBSET Nat
    OBVIOUS
  <2> HIDE DEF Bad
  <2> QED
    BY <2>1, LeastNumber
<1>3. Pc(c, n + 1) = Pc(d, k + 1) /\ (n + 1) - 0 = n + 1 /\ (k + 1) - 0 = k + 1
  BY <1>1 DEF Words
<1>4. i # 0
  BY <1>3
<1>5. i \in 1..p /\ i - 1 \in 0..(p - 1) /\ i - 1 \in 0..p /\ i - 1 < i
  BY <1>4
<1>6. Pc(c, (n + 1) - (i - 1)) = Pc(d, (k + 1) - (i - 1))
  <2>1. i - 1 \notin Bad
    <3>1. i \in Nat
      OBVIOUS
    <3> HIDE DEF Bad
    <3> SUFFICES ASSUME i - 1 \in Bad PROVE FALSE
      OBVIOUS
    <3>2. i <= i - 1
      BY <1>2
    <3> QED
      BY <3>1, <3>2
  <2> QED
    BY <1>5, <2>1
<1>7. c[n - (i - 1)] = d[k - (i - 1)]
  BY <1>5
<1>8. /\ (n + 1) - i \in 1..n /\ ((n + 1) - i) + 1 = (n + 1) - (i - 1)
      /\ (n + 1) - i = n - (i - 1)
      /\ (k + 1) - i \in 1..k /\ ((k + 1) - i) + 1 = (k + 1) - (i - 1)
      /\ (k + 1) - i = k - (i - 1)
  BY <1>1, <1>5
<1> HIDE DEF Bad
<1>9. /\ Pc(c, (n + 1) - (i - 1)) = Pc(c, (n + 1) - i) + Size[c[(n + 1) - i]]
      /\ Pc(d, (k + 1) - (i - 1)) = Pc(d, (k + 1) - i) + Size[d[(k + 1) - i]]
  <2>1. Pc(c, ((n + 1) - i) + 1) = Pc(c, (n + 1) - i) + Size[c[(n + 1) - i]]
    BY <1>8, PcOfNext
  <2>2. Pc(d, ((k + 1) - i) + 1) = Pc(d, (k + 1) - i) + Size[d[(k + 1) - i]]
    BY <1>8, PcOfNext
  <2> QED
    BY <1>8, <2>1, <2>2
<1>10. c[(n + 1) - i] = d[(k + 1) - i]
  BY <1>7, <1>8
<1>11. /\ Pc(c, (n + 1) - i) \in Nat /\ Pc(d, (k + 1) - i) \in Nat
       /\ Size[c[(n + 1) - i]] \in Nat
  <2>1. (n + 1) - i \in Nat /\ (n + 1) - i <= n + 1 /\ (k + 1) - i \in Nat /\ (k + 1) - i <= k + 1
    BY <1>1, <1>8
  <2> QED
    BY <1>8, <2>1, PrecedingFinite, CodeFacts
<1>12. Pc(c, (n + 1) - i) = Pc(d, (k + 1) - i)
  BY <1>6, <1>9, <1>10, <1>11
<1> QED
  BY <1>2, <1>12 DEF Bad

---------------------------------------------------------------------------
(* Codes and the places that are matched.                                  *)

\* M matches equal instructions of codes c and d, in their order.
Matching(c, d, M) ==
  /\ M \in SUBSET ((1..Len(c)) \X (1..Len(d)))
  /\ \A s, t \in M : s[1] < t[1] <=> s[2] < t[2]
  /\ \A s \in M : c[s[1]] = d[s[2]]

Has(M, i) == \E s \in M : s[1] = i

Converse(M) == {<<s[2], s[1]>> : s \in M}

LEMMA ConverseFacts ==
  ASSUME NEW c, NEW d, NEW M, Matching(c, d, M)
  PROVE  /\ Matching(d, c, Converse(M)) /\ Converse(Converse(M)) = M
         /\ \A j : Has(Converse(M), j) <=> \E s \in M : s[2] = j
<1>1. \A s \in M : s = <<s[1], s[2]>> /\ s[1] \in 1..Len(c) /\ s[2] \in 1..Len(d)
  BY DEF Matching
<1>2. \A s \in Converse(M) : /\ s = <<s[1], s[2]>> /\ <<s[2], s[1]>> \in M
                             /\ s[1] \in 1..Len(d) /\ s[2] \in 1..Len(c)
  BY <1>1 DEF Converse
<1>3. Converse(M) \in SUBSET ((1..Len(d)) \X (1..Len(c)))
  <2>1. \A s \in Converse(M) : <<s[1], s[2]>> \in (1..Len(d)) \X (1..Len(c))
    BY <1>2
  <2> QED
    BY <1>2, <2>1
<1>4. \A s, t \in Converse(M) : s[1] < t[1] <=> s[2] < t[2]
  <2> SUFFICES ASSUME NEW s \in Converse(M), NEW t \in Converse(M)
               PROVE  s[1] < t[1] <=> s[2] < t[2]
    OBVIOUS
  <2>1. PICK s2 \in M : s2 = <<s[2], s[1]>>
    BY <1>2
  <2>2. PICK t2 \in M : t2 = <<t[2], t[1]>>
    BY <1>2
  <2>3. s2[1] < t2[1] <=> s2[2] < t2[2]
    BY DEF Matching
  <2> QED
    BY <2>1, <2>2, <2>3
<1>5. \A s \in Converse(M) : d[s[1]] = c[s[2]]
  BY <1>1, <1>2 DEF Matching
<1>6. Converse(Converse(M)) = M
  <2>1. \A s \in M : s \in Converse(Converse(M))
    <3> SUFFICES ASSUME NEW s \in M PROVE s \in Converse(Converse(M))
      OBVIOUS
    <3>1. <<s[2], s[1]>> \in Converse(M)
      BY DEF Converse
    <3> QED
      BY <1>1, <3>1 DEF Converse
  <2>2. \A s \in Converse(Converse(M)) : s \in M
    BY <1>2 DEF Converse
  <2> QED
    BY <2>1, <2>2
<1>7. \A j : Has(Converse(M), j) <=> \E s \in M : s[2] = j
  <2>1. ASSUME NEW j, NEW s \in Converse(M), s[1] = j PROVE \E t \in M : t[2] = j
    <3>1. PICK t \in M : s = <<t[2], t[1]>>
      BY DEF Converse
    <3> QED
      BY <2>1, <3>1
  <2>2. ASSUME NEW j, NEW s \in M, s[2] = j PROVE \E t \in Converse(M) : t[1] = j
    <3>1. PICK t \in Converse(M) : t = <<s[2], s[1]>>
      BY DEF Converse
    <3>2. t[1] = s[2]
      BY <3>1
    <3> QED
      BY <2>2, <3>2
  <2> QED
    BY <2>1, <2>2 DEF Has
<1> QED
  BY <1>3, <1>4, <1>5, <1>6, <1>7 DEF Matching

LEMMA MatchedIsMatching == IInv => Matching(before, after, matched)
  BY DEF IInv, OrderedMatches, Matching

\* Codes whose first p and first q places are all matched are equal there.
LEMMA EqualPrefix ==
  ASSUME NEW c \in Code, NEW d \in Code, NEW M, Matching(c, d, M),
         NEW p \in 0..Len(c), NEW q \in 0..Len(d),
         \A i \in 1..p : Has(M, i), \A j \in 1..q : Has(Converse(M), j)
  PROVE  \A i \in 1..p : i <= q => <<i, i>> \in M /\ c[i] = d[i]
<1>1. Len(c) \in Nat /\ Len(d) \in Nat
  BY CodeFacts, BoundsAssumption
<1>2. /\ M \in SUBSET ((1..Len(c)) \X (1..Len(d)))
      /\ \A s, t \in M : s[1] < t[1] <=> s[2] < t[2]
      /\ \A s \in M : c[s[1]] = d[s[2]]
  BY DEF Matching
<1>3. /\ \A i \in 1..p : \E s \in M : s[1] = i
      /\ \A j \in 1..q : \E s \in M : s[2] = j
  BY ConverseFacts DEF Has
<1>4. \A i \in 1..p : i <= q => <<i, i>> \in M
  BY <1>1, <1>2, <1>3, PrefixIsIdentity
<1>5. ASSUME NEW i, <<i, i>> \in M PROVE c[i] = d[i]
  <2>1. <<i, i>>[1] = i /\ <<i, i>>[2] = i
    OBVIOUS
  <2> QED
    BY <1>2, <1>5, <2>1
<1> QED
  BY <1>4, <1>5

\* Codes that are matched everywhere are equal.
LEMMA NotShorter ==
  ASSUME NEW c \in Code, NEW d \in Code, NEW M, Matching(c, d, M),
         \A i \in 1..Len(c) : Has(M, i), \A j \in 1..Len(d) : Has(Converse(M), j)
  PROVE  Len(d) <= Len(c)
<1>1. Len(c) \in Nat /\ Len(d) \in Nat
  BY CodeFacts, BoundsAssumption
<1> SUFFICES ASSUME Len(c) < Len(d) PROVE FALSE
  BY <1>1
<1>2. Len(c) \in 0..Len(c) /\ Len(d) \in 0..Len(d) /\ Len(c) + 1 \in 1..Len(d)
  BY <1>1
<1>3. \A i \in 1..Len(c) : i <= Len(d) => <<i, i>> \in M /\ c[i] = d[i]
  BY <1>2, EqualPrefix
<1>4. PICK s \in M : s[2] = Len(c) + 1
  BY <1>2, ConverseFacts
<1>5. s[1] \in 1..Len(c) /\ s[1] \in Nat /\ s[1] <= Len(d)
  BY <1>1 DEF Matching
<1>6. PICK t \in M : t = <<s[1], s[1]>>
  BY <1>3, <1>5
<1>7. t[1] = s[1] /\ t[2] = s[1]
  BY <1>6
<1>8. t[1] < s[1] <=> t[2] < s[2]
  BY DEF Matching
<1> QED
  BY <1>1, <1>4, <1>5, <1>7, <1>8

LEMMA AllMatchedIsSame ==
  ASSUME NEW c \in Code, NEW d \in Code, NEW M, Matching(c, d, M),
         \A i \in 1..Len(c) : Has(M, i), \A j \in 1..Len(d) : Has(Converse(M), j)
  PROVE  c = d
<1>1. Len(c) \in Nat /\ Len(d) \in Nat
  BY CodeFacts, BoundsAssumption
<1>2. Len(d) <= Len(c)
  BY NotShorter
<1>3. Matching(d, c, Converse(M)) /\ Converse(Converse(M)) = M
  BY ConverseFacts
<1>4. Len(c) <= Len(d)
  BY <1>3, NotShorter
<1>5. Len(c) = Len(d)
  BY <1>1, <1>2, <1>4
<1>6. Len(c) \in 0..Len(c) /\ Len(d) \in 0..Len(d)
  BY <1>1
<1>7. \A i \in 1..Len(c) : i <= Len(d) => <<i, i>> \in M /\ c[i] = d[i]
  BY <1>6, EqualPrefix
<1>8. ASSUME NEW i \in 1..Len(c) PROVE c[i] = d[i]
  <2>1. i <= Len(d)
    BY <1>1, <1>5
  <2> QED
    BY <1>7, <2>1
<1> QED
  BY <1>5, <1>8, CodeFacts

LEMMA ChangeIsSeenNow == IInv => ChangeIsSeen
<1> SUFFICES ASSUME IInv, Aligned PROVE Nonempty <=> before # after
  BY DEF ChangeIsSeen
<1>1. Coded /\ Matching(before, after, matched) /\ regions = {} /\ before \in Code /\ after \in Code
  BY MatchedIsMatching DEF IInv, Aligned, Coded
<1>2. DOMAIN before = 1..Len(before) /\ DOMAIN after = 1..Len(after)
  BY <1>1, CodeFacts
<1>3. ASSUME ~Nonempty PROVE before = after
  <2>1. \A i \in 1..Len(before) : Has(matched, i)
    BY <1>2, <1>3 DEF Nonempty, ChangedBefore, Has
  <2>2. \A j \in 1..Len(after) : Has(Converse(matched), j)
    BY <1>1, <1>2, <1>3, ConverseFacts DEF Nonempty, ChangedAfter
  <2> QED
    BY <1>1, <2>1, <2>2, AllMatchedIsSame
<1>4. ASSUME before = after PROVE ~Nonempty
  <2>1. \A i \in 1..Len(before) : <<i, i>> \in matched
    BY <1>1, <1>4 DEF IInv, SameIsMatched
  <2>2. \A i : <<i, i>>[1] = i /\ <<i, i>>[2] = i
    OBVIOUS
  <2> QED
    BY <1>2, <1>4, <2>1, <2>2 DEF Nonempty, ChangedBefore, ChangedAfter
<1> QED
  BY <1>3, <1>4

---------------------------------------------------------------------------
(* Outside the windows.                                                    *)

\* What is outside windows that hold every change is matched.
LEMMA OutsideIsMatched ==
  ASSUME IInv, NEW W \in SUBSET Window, Within(ChangedPcs, W)
  PROVE  /\ \A i \in Outside(before, W) : Has(matched, i)
         /\ \A j \in Outside(after, W) : Has(Converse(matched), j)
<1>1. /\ before \in Code /\ after \in Code /\ Matching(before, after, matched)
      /\ DOMAIN before = 1..Len(before) /\ DOMAIN after = 1..Len(after)
  BY MatchedIsMatching, CodeFacts DEF IInv, Coded
<1>2. \A w \in W : w[1] \in Nat /\ w[2] \in Nat
  BY BoundsAssumption DEF Window
<1>3. ASSUME NEW code \in Code, NEW i \in Outside(code, W)
      PROVE  ~InSome(Pc(code, i), W)
  <2>1. i \in 1..Len(code) /\ Len(code) \in Nat
    BY CodeFacts, BoundsAssumption DEF Outside
  <2>2. Pc(code, i) \in Nat
    BY <2>1, PrecedingFinite
  <2>3. \A w \in W : Pc(code, i) < w[1] \/ Pc(code, i) > w[2]
    BY DEF Outside
  <2> QED
    BY <1>2, <2>2, <2>3 DEF InSome, InWindow
<1>4. ASSUME NEW i \in Outside(before, W) PROVE Has(matched, i)
  <2>1. i \in DOMAIN before
    BY DEF Outside
  <2>2. Pc(before, i) \notin ChangedPcs
    BY <1>1, <1>3 DEF Within
  <2>3. i \notin ChangedBefore
    BY <2>2 DEF ChangedPcs
  <2> QED
    BY <2>1, <2>3 DEF ChangedBefore, Has
<1>5. ASSUME NEW j \in Outside(after, W) PROVE Has(Converse(matched), j)
  <2>1. j \in DOMAIN after
    BY DEF Outside
  <2>2. Pc(after, j) \notin ChangedPcs
    BY <1>1, <1>3 DEF Within
  <2>3. j \notin ChangedAfter
    BY <2>2 DEF ChangedPcs
  <2> QED
    BY <1>1, <2>1, <2>3, ConverseFacts DEF ChangedAfter
<1> QED
  BY <1>4, <1>5

\* The partners of the places outside are what is kept of them.
LEMMA MatchedIsKept ==
  ASSUME NEW c \in Code, NEW d \in Code, NEW M, Matching(c, d, M), NEW W,
         \A i \in Outside(c, W) : Has(M, i)
  PROVE  KeptIn(c, d, W)
<1> DEFINE O == Outside(c, W)
           Partner(i) == CHOOSE s \in M : s[1] = i
           f == [i \in O |-> Partner(i)[2]]
<1>1. \A i \in O : Partner(i) \in M /\ Partner(i)[1] = i
  BY DEF Has
<1>2. DOMAIN d = 1..Len(d)
  BY CodeFacts
<1> HIDE DEF Partner, O
<1>3. \A i \in O : f[i] = Partner(i)[2]
  OBVIOUS
<1>4. f \in [O -> DOMAIN d]
  BY <1>1, <1>2 DEF Matching
<1>5. \A i, k \in O : i < k => f[i] < f[k]
  BY <1>1, <1>3 DEF Matching
<1>6. \A i \in O : d[f[i]] = c[i]
  BY <1>1, <1>3 DEF Matching
<1> HIDE DEF f
<1> QED
  BY <1>4, <1>5, <1>6 DEF KeptIn, O

\* Any set of windows that holds every change keeps what is outside it.
AnyWindowsKeep ==
  Aligned => \A W \in SUBSET Window : Within(ChangedPcs, W) => KeepsOutside(W)

LEMMA AnyWindowsKeepNow == IInv => AnyWindowsKeep
<1> SUFFICES ASSUME IInv, NEW W \in SUBSET Window, Within(ChangedPcs, W)
             PROVE  KeepsOutside(W)
  BY DEF AnyWindowsKeep
<1>1. before \in Code /\ after \in Code /\ Matching(before, after, matched)
  BY MatchedIsMatching DEF IInv, Coded
<1>2. Matching(after, before, Converse(matched))
  BY <1>1, ConverseFacts
<1>3. KeptIn(before, after, W)
  BY <1>1, OutsideIsMatched, MatchedIsKept
<1>4. KeptIn(after, before, W)
  BY <1>1, <1>2, OutsideIsMatched, MatchedIsKept
<1> QED
  BY <1>3, <1>4 DEF KeepsOutside

LEMMA OutsideIsKeptNow == IInv => OutsideIsKept
<1> SUFFICES ASSUME IInv, Aligned, NEW w1 \in Window, NEW w2 \in Window,
                    Within(ChangedPcs, {w1, w2})
             PROVE  KeepsOutside({w1, w2})
  BY DEF OutsideIsKept
<1>1. {w1, w2} \in SUBSET Window
  OBVIOUS
<1> QED
  BY <1>1, AnyWindowsKeepNow DEF AnyWindowsKeep

---------------------------------------------------------------------------
(* One window.                                                             *)

LEMMA OutsideOne ==
  ASSUME NEW code \in Code, NEW w, NEW i
  PROVE  i \in Outside(code, {w}) <=>
           i \in 1..Len(code) /\ (Pc(code, i) < w[1] \/ Pc(code, i) > w[2])
  BY CodeFacts DEF Outside

LEMMA PcIsNat ==
  ASSUME NEW code \in Code
  PROVE  /\ Len(code) \in Nat \ {0}
         /\ \A i \in 1..(Len(code) + 1) : Pc(code, i) \in Nat
<1>1. Len(code) \in Nat \ {0}
  BY CodeFacts, BoundsAssumption
<1>2. \A i \in 1..(Len(code) + 1) : i \in Nat /\ i <= Len(code) + 1
  BY <1>1
<1> QED
  BY <1>1, <1>2, PrecedingFinite

\* The places before a window are the first ones.
LEMMA PlacesBefore ==
  ASSUME NEW code \in Code, NEW w \in Window
  PROVE  \E p \in 0..Len(code) : \A i \in 1..Len(code) : Pc(code, i) < w[1] <=> i <= p
<1> DEFINE n == Len(code)
           S == {i \in 1..(n + 1) : i = n + 1 \/ ~(Pc(code, i) < w[1])}
<1>1. n \in Nat /\ w[1] \in Nat /\ \A i \in 1..(n + 1) : Pc(code, i) \in Nat
  BY PcIsNat, BoundsAssumption DEF Window
<1>2. \A i \in 1..n, j \in 1..n : i < j => Pc(code, i) < Pc(code, j)
  <2>1. \A j \in 1..n : j \in 1..(n + 1)
    BY <1>1
  <2> QED
    BY <2>1, PcIncreases
<1> HIDE DEF n
<1>3. S \in SUBSET Nat /\ n + 1 \in S
  BY <1>1
<1>4. PICK m \in S : \A s \in S : m <= s
  <2> HIDE DEF S
  <2> QED
    BY <1>3, LeastNumber
<1>5. m \in 1..(n + 1) /\ m - 1 \in 0..n
  BY <1>1
<1>6. ASSUME NEW i \in 1..n PROVE Pc(code, i) < w[1] <=> i <= m - 1
  <2>1. i \in 1..(n + 1) /\ i \in Nat /\ i # n + 1
    BY <1>1
  <2>2. ASSUME i <= m - 1 PROVE Pc(code, i) < w[1]
    <3>1. i \notin S
      <4> SUFFICES ASSUME i \in S PROVE FALSE
        OBVIOUS
      <4>1. m <= i
        BY <1>4
      <4> QED
        BY <1>5, <2>1, <2>2, <4>1
    <3> QED
      BY <2>1, <3>1
  <2>3. ASSUME ~(i <= m - 1) PROVE ~(Pc(code, i) < w[1])
    <3>1. m <= i /\ m \in 1..n
      BY <1>1, <1>5, <2>1, <2>3
    <3>2. ~(Pc(code, m) < w[1])
      BY <1>1, <3>1
    <3>3. Pc(code, m) <= Pc(code, i)
      <4>1. CASE m = i
        BY <1>1, <2>1, <4>1
      <4>2. CASE m < i
        BY <1>1, <1>2, <1>5, <2>1, <3>1, <4>2
      <4> QED
        BY <2>1, <3>1, <4>1, <4>2
    <3>4. Pc(code, m) \in Nat /\ Pc(code, i) \in Nat
      BY <1>1, <1>5, <2>1
    <3> QED
      BY <1>1, <3>2, <3>3, <3>4
  <2> QED
    BY <2>2, <2>3
<1> QED
  BY <1>5, <1>6 DEF n

\* The places after a window are those from PlaceAfter on.
LEMMA PlaceAfterFacts ==
  ASSUME NEW code \in Code, NEW w \in Window
  PROVE  /\ PlaceAfter(code, w) \in 1..(Len(code) + 1)
         /\ \A i \in 1..Len(code) : Pc(code, i) > w[2] <=> i >= PlaceAfter(code, w)
<1> DEFINE n == Len(code)
           S == {i \in 1..(n + 1) : i = n + 1 \/ Pc(code, i) > w[2]}
           Is(i) == /\ i = n + 1 \/ Pc(code, i) > w[2]
                    /\ \A k \in 1..(i - 1) : Pc(code, k) <= w[2]
           a == PlaceAfter(code, w)
<1>1. n \in Nat /\ w[2] \in Nat /\ \A i \in 1..(n + 1) : Pc(code, i) \in Nat
  BY PcIsNat, BoundsAssumption DEF Window
<1>2. \A i \in 1..n, j \in 1..n : i < j => Pc(code, i) < Pc(code, j)
  <2>1. \A j \in 1..n : j \in 1..(n + 1)
    BY <1>1
  <2> QED
    BY <2>1, PcIncreases
<1>3. a = CHOOSE i \in 1..(n + 1) : Is(i)
  BY DEF PlaceAfter
<1> HIDE DEF n
<1>4. S \in SUBSET Nat /\ n + 1 \in S
  BY <1>1
<1>5. PICK m \in S : \A s \in S : m <= s
  <2> HIDE DEF S
  <2> QED
    BY <1>4, LeastNumber
<1>6. \A k \in 1..(m - 1) : Pc(code, k) <= w[2]
  <2> SUFFICES ASSUME NEW k \in 1..(m - 1), ~(Pc(code, k) <= w[2]) PROVE FALSE
    OBVIOUS
  <2>1. k \in 1..(n + 1) /\ k \in Nat /\ m \in Nat /\ k < m
    BY <1>1
  <2>2. Pc(code, k) > w[2]
    BY <1>1, <2>1
  <2>3. m <= k
    BY <1>5, <2>1, <2>2
  <2> QED
    BY <2>1, <2>3
<1>7. m \in 1..(n + 1) /\ Is(m)
  BY <1>6
<1> HIDE DEF a
<1>8. a \in 1..(n + 1) /\ Is(a)
  <2> HIDE DEF Is
  <2> QED
    BY <1>3, <1>7
<1>9. ASSUME NEW i \in 1..n PROVE Pc(code, i) > w[2] <=> i >= a
  <2>1. i \in 1..(n + 1) /\ i \in Nat /\ i # n + 1 /\ a \in Nat /\ Pc(code, i) \in Nat
    BY <1>1, <1>8
  <2>2. ASSUME i < a PROVE ~(Pc(code, i) > w[2])
    <3>1. i \in 1..(a - 1)
      BY <2>1, <2>2
    <3>2. Pc(code, i) <= w[2]
      BY <1>8, <3>1
    <3> QED
      BY <1>1, <2>1, <3>2
  <2>3. ASSUME i >= a PROVE Pc(code, i) > w[2]
    <3>1. a \in 1..n /\ a # n + 1
      BY <1>1, <1>8, <2>1, <2>3
    <3>2. Pc(code, a) > w[2] /\ Pc(code, a) \in Nat
      BY <1>1, <1>8, <3>1
    <3>3. CASE a = i
      BY <3>2, <3>3
    <3>4. CASE a < i
      <4>1. Pc(code, a) < Pc(code, i)
        BY <1>2, <3>1, <3>4
      <4> QED
        BY <1>1, <2>1, <3>2, <4>1
    <3> QED
      BY <2>1, <2>3, <3>3, <3>4
  <2> QED
    BY <2>1, <2>2, <2>3
<1> QED
  BY <1>8, <1>9 DEF n, a

\* Codes of the same length whose last p and last q places are all matched
\* are equal there, counted from the end.
LEMMA EqualSuffix ==
  ASSUME NEW c \in Code, NEW d \in Code, NEW M, Matching(c, d, M),
         NEW p \in 0..Len(c), NEW q \in 0..Len(d),
         \A i \in 0..(p - 1) : Has(M, Len(c) - i),
         \A j \in 0..(q - 1) : Has(Converse(M), Len(d) - j)
  PROVE  \A i \in 0..(p - 1) : i < q => c[Len(c) - i] = d[Len(d) - i]
<1> DEFINE n == Len(c)
           k == Len(d)
           Mirrored(s) == <<(n + 1) - s[1], (k + 1) - s[2]>>
           N == {Mirrored(s) : s \in M}
<1>1. n \in Nat /\ k \in Nat /\ p \in 0..n /\ q \in 0..k
  BY CodeFacts, BoundsAssumption
<1>2. /\ \A s \in M : s[1] \in 1..n /\ s[2] \in 1..k /\ c[s[1]] = d[s[2]]
      /\ \A s, t \in M : s[1] < t[1] <=> s[2] < t[2]
  BY DEF Matching
<1>3. /\ \A i \in 0..(p - 1) : \E s \in M : s[1] = n - i
      /\ \A j \in 0..(q - 1) : \E s \in M : s[2] = k - j
  BY ConverseFacts DEF Has
<1> HIDE DEF n, k
<1>4. \A s \in M : /\ Mirrored(s)[1] = (n + 1) - s[1] /\ Mirrored(s)[2] = (k + 1) - s[2]
                   /\ Mirrored(s)[1] \in 1..n /\ Mirrored(s)[2] \in 1..k
  BY <1>1, <1>2
<1>5. N \in SUBSET ((1..n) \X (1..k))
  BY <1>4
<1>6. \A s, t \in M : Mirrored(s)[1] < Mirrored(t)[1] <=> Mirrored(s)[2] < Mirrored(t)[2]
  <2> SUFFICES ASSUME NEW s \in M, NEW t \in M
               PROVE  Mirrored(s)[1] < Mirrored(t)[1] <=> Mirrored(s)[2] < Mirrored(t)[2]
    OBVIOUS
  <2>1. t[1] < s[1] <=> t[2] < s[2]
    BY <1>2
  <2>2. s[1] \in Nat /\ s[2] \in Nat /\ t[1] \in Nat /\ t[2] \in Nat
    BY <1>2
  <2>3. /\ (n + 1) - s[1] < (n + 1) - t[1] <=> t[1] < s[1]
        /\ (k + 1) - s[2] < (k + 1) - t[2] <=> t[2] < s[2]
    <3>1. \A u, x, y \in Nat : (u + 1) - x < (u + 1) - y <=> y < x
      OBVIOUS
    <3> QED
      BY <1>1, <2>2, <3>1
  <2> QED
    BY <1>4, <2>1, <2>3
<1>7. \A s, t \in N : s[1] < t[1] <=> s[2] < t[2]
  <2> HIDE DEF Mirrored
  <2> QED
    BY <1>6
<1>8. ASSUME NEW i \in 1..p PROVE \E s \in N : s[1] = i
  <2>1. i - 1 \in 0..(p - 1) /\ (n + 1) - (n - (i - 1)) = i
    BY <1>1
  <2>2. PICK s \in M : s[1] = n - (i - 1)
    BY <1>3, <2>1
  <2>3. Mirrored(s)[1] = i /\ Mirrored(s) \in N
    BY <1>4, <2>1, <2>2
  <2> QED
    BY <2>3
<1>9. ASSUME NEW j \in 1..q PROVE \E s \in N : s[2] = j
  <2>1. j - 1 \in 0..(q - 1) /\ (k + 1) - (k - (j - 1)) = j
    BY <1>1
  <2>2. PICK s \in M : s[2] = k - (j - 1)
    BY <1>3, <2>1
  <2>3. Mirrored(s)[2] = j /\ Mirrored(s) \in N
    BY <1>4, <2>1, <2>2
  <2> QED
    BY <2>3
<1>10. \A i \in 1..p : i <= q => <<i, i>> \in N
  <2> HIDE DEF N
  <2> QED
    BY <1>1, <1>5, <1>7, <1>8, <1>9, PrefixIsIdentity
<1>11. ASSUME NEW i \in 0..(p - 1), i < q PROVE c[n - i] = d[k - i]
  <2>1. i + 1 \in 1..p /\ i + 1 <= q
    BY <1>1, <1>11
  <2>2. PICK s \in M : <<i + 1, i + 1>> = Mirrored(s)
    BY <1>10, <2>1
  <2>3. (n + 1) - s[1] = i + 1 /\ (k + 1) - s[2] = i + 1
    BY <2>2
  <2>4. s[1] \in Nat /\ s[2] \in Nat
    BY <1>2
  <2>5. s[1] = n - i /\ s[2] = k - i
    <3>1. \A u, x, y \in Nat : (u + 1) - x = y + 1 => x = u - y
      OBVIOUS
    <3>2. i \in Nat /\ n \in Nat /\ k \in Nat
      BY <1>1
    <3>3. s[1] = n - i
      BY ONLY <2>3, <2>4, <3>1, <3>2
    <3>4. s[2] = k - i
      BY ONLY <2>3, <2>4, <3>1, <3>2
    <3> QED
      BY <3>3, <3>4
  <2> QED
    BY <1>2, <2>5
<1> QED
  BY <1>11 DEF n, k

\* What one window and the matching of what is outside it say of two codes.
Confined(c, d, M, w) ==
  /\ c \in Code /\ d \in Code /\ w \in Window /\ Matching(c, d, M)
  /\ \A i \in Outside(c, {w}) : Has(M, i)
  /\ \A j \in Outside(d, {w}) : Has(Converse(M), j)
  /\ Words(c) = Words(d)
  /\ EndOf(c, w) = EndOf(d, w)

LEMMA ConfinedConverse ==
  ASSUME NEW c, NEW d, NEW M, NEW w, Confined(c, d, M, w)
  PROVE  Confined(d, c, Converse(M), w)
  BY ConverseFacts DEF Confined

\* The code before the window is not longer in the one than in the other.
LEMMA NotMoreBefore ==
  ASSUME NEW c, NEW d, NEW M, NEW w, Confined(c, d, M, w),
         NEW p \in 0..Len(c), \A i \in 1..Len(c) : Pc(c, i) < w[1] <=> i <= p,
         NEW q \in 0..Len(d), \A j \in 1..Len(d) : Pc(d, j) < w[1] <=> j <= q
  PROVE  q <= p
<1>1. c \in Code /\ d \in Code /\ Matching(c, d, M) /\ Words(c) = Words(d)
  BY DEF Confined
<1>2. /\ Len(c) \in Nat \ {0} /\ Len(d) \in Nat \ {0}
      /\ \A i \in 1..(Len(c) + 1) : Pc(c, i) \in Nat
      /\ \A j \in 1..(Len(d) + 1) : Pc(d, j) \in Nat
  BY <1>1, PcIsNat
<1> SUFFICES ASSUME p < q PROVE FALSE
  BY <1>2
<1>3. /\ p \in Nat /\ q \in Nat /\ p <= Len(c) /\ q <= Len(d) /\ p + 1 <= q
      /\ p + 1 \in 1..Len(d) /\ p + 1 \in 1..(Len(c) + 1) /\ p + 1 \in Nat /\ (p + 1) - 1 = p
  BY <1>2
<1>4. \A i \in 1..p : Has(M, i)
  <2> SUFFICES ASSUME NEW i \in 1..p PROVE Has(M, i)
    OBVIOUS
  <2>1. i \in 1..Len(c) /\ i <= p
    BY <1>2, <1>3
  <2>2. i \in Outside(c, {w})
    BY <1>1, <2>1, OutsideOne
  <2> QED
    BY <2>2 DEF Confined
<1>5. \A j \in 1..q : Has(Converse(M), j)
  <2> SUFFICES ASSUME NEW j \in 1..q PROVE Has(Converse(M), j)
    OBVIOUS
  <2>1. j \in 1..Len(d) /\ j <= q
    BY <1>2, <1>3
  <2>2. j \in Outside(d, {w})
    BY <1>1, <2>1, OutsideOne
  <2> QED
    BY <2>2 DEF Confined
<1>6. \A i \in 1..p : i <= q => <<i, i>> \in M /\ c[i] = d[i]
  BY <1>1, <1>4, <1>5, EqualPrefix
<1>7. \A i \in 1..((p + 1) - 1) : c[i] = d[i]
  <2> SUFFICES ASSUME NEW i \in 1..((p + 1) - 1) PROVE c[i] = d[i]
    OBVIOUS
  <2>1. i \in 1..p /\ i <= q
    BY <1>3
  <2> QED
    BY <1>6, <2>1
<1>8. Pc(c, p + 1) = Pc(d, p + 1)
  BY <1>3, <1>7, PcOfPrefix
<1>9. Pc(d, p + 1) < w[1]
  BY <1>3
<1>10. CASE p = Len(c)
  <2>1. Len(d) + 1 \in 1..(Len(d) + 1) /\ p + 1 < Len(d) + 1
    BY <1>2, <1>3
  <2>2. Pc(d, p + 1) < Words(d)
    BY <1>1, <1>3, <2>1, PcIncreases DEF Words
  <2>3. Words(c) = Pc(d, p + 1)
    BY <1>8, <1>10 DEF Words
  <2>4. Pc(d, p + 1) \in Nat
    BY <1>2, <1>3, <1>8
  <2> QED
    BY <1>1, <2>2, <2>3, <2>4
<1>11. CASE p < Len(c)
  <2>1. p + 1 \in 1..Len(c) /\ ~(p + 1 <= p)
    BY <1>2, <1>3, <1>11
  <2> QED
    BY <1>8, <1>9, <2>1
<1> QED
  BY <1>2, <1>3, <1>10, <1>11

\* Places from a on, counted from the end, are the last (n + 1) - a.
LEMMA FromTheEnd ==
  ASSUME NEW n \in Nat, NEW a \in 1..(n + 1)
  PROVE  /\ (n + 1) - a \in 0..n /\ (n + 1) - a \in Nat
         /\ (n + 1) - ((n + 1) - a) = a
         /\ \A i \in 0..(((n + 1) - a) - 1) : n - i \in 1..n /\ n - i >= a
         /\ \A i \in 1..n : i >= a => /\ n - i \in 0..(((n + 1) - a) - 1)
                                      /\ n - (n - i) = i
                                      /\ (n - i) + 1 \in 0..((n + 1) - a)
                                      /\ (n + 1) - ((n - i) + 1) = i
  OBVIOUS

\* The last places of codes that one window confines.
LEMMA AfterIsMatched ==
  ASSUME NEW c, NEW d, NEW M, NEW w, Confined(c, d, M, w)
  PROVE  \A i \in 0..(((Len(c) + 1) - PlaceAfter(c, w)) - 1) : Has(M, Len(c) - i)
<1>1. c \in Code /\ w \in Window /\ Len(c) \in Nat
  BY PcIsNat DEF Confined
<1>2. /\ PlaceAfter(c, w) \in 1..(Len(c) + 1)
      /\ \A i \in 1..Len(c) : Pc(c, i) > w[2] <=> i >= PlaceAfter(c, w)
  BY <1>1, PlaceAfterFacts
<1>3. \A i \in 0..(((Len(c) + 1) - PlaceAfter(c, w)) - 1) :
        Len(c) - i \in 1..Len(c) /\ Len(c) - i >= PlaceAfter(c, w)
  BY <1>1, <1>2, FromTheEnd
<1>4. \A i \in 1..Len(c) : i >= PlaceAfter(c, w) => i \in Outside(c, {w})
  BY <1>1, <1>2, OutsideOne
<1> QED
  BY <1>3, <1>4 DEF Confined

\* As far as both codes go after the window, they are equal, at the same
\* addresses.
LEMMA EqualAfter ==
  ASSUME NEW c, NEW d, NEW M, NEW w, Confined(c, d, M, w),
         NEW e \in Nat, e <= (Len(c) + 1) - PlaceAfter(c, w), e <= (Len(d) + 1) - PlaceAfter(d, w)
  PROVE  /\ \A i \in 0..(e - 1) : c[Len(c) - i] = d[Len(d) - i]
         /\ \A i \in 0..e : Pc(c, (Len(c) + 1) - i) = Pc(d, (Len(d) + 1) - i)
<1> DEFINE p == (Len(c) + 1) - PlaceAfter(c, w)
           q == (Len(d) + 1) - PlaceAfter(d, w)
<1>1. /\ c \in Code /\ d \in Code /\ w \in Window /\ Matching(c, d, M) /\ Words(c) = Words(d)
      /\ Len(c) \in Nat /\ Len(d) \in Nat
  BY PcIsNat DEF Confined
<1>2. PlaceAfter(c, w) \in 1..(Len(c) + 1) /\ PlaceAfter(d, w) \in 1..(Len(d) + 1)
  BY <1>1, PlaceAfterFacts
<1>3. p \in 0..Len(c) /\ q \in 0..Len(d)
  BY <1>1, <1>2, FromTheEnd
<1>4. \A i \in 0..(p - 1) : Has(M, Len(c) - i)
  BY AfterIsMatched
<1>5. \A j \in 0..(q - 1) : Has(Converse(M), Len(d) - j)
  BY ConfinedConverse, AfterIsMatched
<1>6. e <= p /\ e <= q
  OBVIOUS
<1> HIDE DEF p, q
<1>7. \A i \in 0..(p - 1) : i < q => c[Len(c) - i] = d[Len(d) - i]
  BY <1>1, <1>3, <1>4, <1>5, EqualSuffix
<1>8. \A i \in 0..(e - 1) : i \in 0..(p - 1) /\ i < q
  BY <1>1, <1>3, <1>6
<1>9. \A i \in 0..(e - 1) : c[Len(c) - i] = d[Len(d) - i]
  BY <1>7, <1>8
<1>10. e <= Len(c) /\ e <= Len(d)
  BY <1>1, <1>3, <1>6
<1> QED
  BY <1>1, <1>9, <1>10, PcOfSuffix

\* The code after the window is not longer in the one than in the other.
LEMMA NotMoreAfter ==
  ASSUME NEW c, NEW d, NEW M, NEW w, Confined(c, d, M, w)
  PROVE  (Len(d) + 1) - PlaceAfter(d, w) <= (Len(c) + 1) - PlaceAfter(c, w)
<1> DEFINE a == PlaceAfter(c, w)
           b == PlaceAfter(d, w)
           p == (Len(c) + 1) - a
           q == (Len(d) + 1) - b
<1>1. /\ c \in Code /\ d \in Code /\ w \in Window /\ Pc(c, a) = Pc(d, b)
      /\ Len(c) \in Nat /\ Len(d) \in Nat
  BY PcIsNat DEF Confined, EndOf
<1>2. a \in 1..(Len(c) + 1) /\ b \in 1..(Len(d) + 1)
  BY <1>1, PlaceAfterFacts
<1>3. p \in Nat /\ q \in Nat /\ p <= p
  BY <1>1, <1>2
<1> SUFFICES ASSUME p < q PROVE FALSE
  BY <1>3
<1>4. p <= q /\ p \in 0..p
  BY <1>3
<1>5. Pc(c, (Len(c) + 1) - p) = Pc(d, (Len(d) + 1) - p)
  BY <1>3, <1>4, EqualAfter
<1>6. /\ (Len(c) + 1) - p = a
      /\ (Len(d) + 1) - p \in 1..(Len(d) + 1) /\ b < (Len(d) + 1) - p /\ b \in 1..Len(d)
  BY <1>1, <1>2
<1>7. Pc(d, b) < Pc(d, (Len(d) + 1) - p)
  BY <1>1, <1>6, PcIncreases
<1>8. Pc(d, b) \in Nat
  BY <1>1, <1>2, PcIsNat
<1> QED
  BY <1>1, <1>5, <1>6, <1>7, <1>8

\* What is outside the window of the one is outside the window of the other.
LEMMA PlacedInOther ==
  ASSUME NEW c, NEW d, NEW M, NEW w, Confined(c, d, M, w)
  PROVE  Placed(c, w) \subseteq Placed(d, w)
<1>1. /\ c \in Code /\ d \in Code /\ w \in Window /\ Matching(c, d, M)
      /\ Len(c) \in Nat /\ Len(d) \in Nat /\ Confined(d, c, Converse(M), w)
  BY PcIsNat, ConfinedConverse DEF Confined
<1> SUFFICES ASSUME NEW i \in Outside(c, {w})
             PROVE  \E j \in Outside(d, {w}) : Pc(d, j) = Pc(c, i) /\ d[j] = c[i]
  BY DEF Placed
<1>2. i \in 1..Len(c) /\ i \in Nat /\ (Pc(c, i) < w[1] \/ Pc(c, i) > w[2])
  BY <1>1, OutsideOne
<1>3. CASE Pc(c, i) < w[1]
  <2>1. PICK p \in 0..Len(c) : \A k \in 1..Len(c) : Pc(c, k) < w[1] <=> k <= p
    BY <1>1, PlacesBefore
  <2>2. PICK q \in 0..Len(d) : \A k \in 1..Len(d) : Pc(d, k) < w[1] <=> k <= q
    BY <1>1, PlacesBefore
  <2>3. q <= p
    BY <2>1, <2>2, NotMoreBefore
  <2>4. p <= q
    BY <1>1, <2>1, <2>2, NotMoreBefore
  <2>5. i <= p
    BY <1>2, <1>3, <2>1
  <2>6. \A k \in 1..p : Has(M, k)
    <3> SUFFICES ASSUME NEW k \in 1..p PROVE Has(M, k)
      OBVIOUS
    <3>1. k \in 1..Len(c) /\ k <= p
      BY <1>1, <2>1
    <3>2. k \in Outside(c, {w})
      BY <1>1, <2>1, <3>1, OutsideOne
    <3> QED
      BY <3>2 DEF Confined
  <2>7. \A k \in 1..q : Has(Converse(M), k)
    <3> SUFFICES ASSUME NEW k \in 1..q PROVE Has(Converse(M), k)
      OBVIOUS
    <3>1. k \in 1..Len(d) /\ k <= q
      BY <1>1, <2>2
    <3>2. k \in Outside(d, {w})
      BY <1>1, <2>2, <3>1, OutsideOne
    <3> QED
      BY <3>2 DEF Confined
  <2>8. \A k \in 1..p : k <= q => <<k, k>> \in M /\ c[k] = d[k]
    BY <1>1, <2>6, <2>7, EqualPrefix
  <2>9. \A k \in 1..i : k \in 1..p /\ k <= q
    BY <1>1, <1>2, <2>1, <2>2, <2>4, <2>5
  <2>10. \A k \in 1..i : c[k] = d[k]
    BY <2>8, <2>9
  <2>11. \A k \in 1..(i - 1) : k \in 1..i
    BY <1>2
  <2>12. Pc(c, i) = Pc(d, i)
    BY <1>2, <2>10, <2>11, PcOfPrefix
  <2>13. i \in 1..i /\ i \in 1..Len(d)
    BY <1>1, <1>2, <2>2, <2>4, <2>5
  <2>14. i \in Outside(d, {w})
    BY <1>1, <1>3, <2>12, <2>13, OutsideOne
  <2> QED
    BY <2>10, <2>12, <2>13, <2>14
<1>4. CASE Pc(c, i) > w[2]
  <2> DEFINE p == (Len(c) + 1) - PlaceAfter(c, w)
             q == (Len(d) + 1) - PlaceAfter(d, w)
             e == Len(c) - i
             j == Len(d) - e
  <2>1. /\ PlaceAfter(c, w) \in 1..(Len(c) + 1) /\ PlaceAfter(d, w) \in 1..(Len(d) + 1)
        /\ i >= PlaceAfter(c, w)
    BY <1>1, <1>2, <1>4, PlaceAfterFacts
  <2>2. q <= p
    BY NotMoreAfter
  <2>3. p <= q
    BY <1>1, NotMoreAfter
  <2>4. p \in Nat /\ q \in Nat /\ p = q /\ p <= p
    <3>1. p \in Nat /\ q \in Nat
      BY <1>1, <2>1, FromTheEnd
    <3> HIDE DEF p, q
    <3> QED
      BY <2>2, <2>3, <3>1
  <2>5. e \in 0..(p - 1) /\ Len(c) - e = i /\ e + 1 \in 0..p /\ (Len(c) + 1) - (e + 1) = i
    BY <1>1, <1>2, <2>1, FromTheEnd
  <2>6. j \in 1..Len(d) /\ (Len(d) + 1) - (e + 1) = j
    <3>1. e \in 0..(q - 1)
      BY <2>4, <2>5
    <3>2. j \in 1..Len(d)
      BY <1>1, <2>1, <3>1, FromTheEnd
    <3>3. e \in Nat
      BY <2>5
    <3> HIDE DEF e, p, q
    <3> QED
      BY <1>1, <3>2, <3>3
  <2>7. /\ \A k \in 0..(p - 1) : c[Len(c) - k] = d[Len(d) - k]
        /\ \A k \in 0..p : Pc(c, (Len(c) + 1) - k) = Pc(d, (Len(d) + 1) - k)
    <3>1. p \in Nat /\ p <= p
      BY <2>4
    <3> QED
      BY ONLY Confined(c, d, M, w), <2>3, <3>1, EqualAfter
  <2> HIDE DEF e, p, q
  <2>8. c[i] = d[j] /\ Pc(c, i) = Pc(d, j)
    BY <2>5, <2>6, <2>7
  <2>9. j \in Outside(d, {w})
    BY <1>1, <1>4, <2>6, <2>8, OutsideOne
  <2> QED
    BY <2>8, <2>9
<1> QED
  BY <1>2, <1>3, <1>4

LEMMA OneWindowConfinesNow == IInv => OneWindowConfines
<1> SUFFICES ASSUME IInv, Aligned, NEW w \in Window, Within(ChangedPcs, {w}),
                    Words(before) = Words(after), EndOf(before, w) = EndOf(after, w)
             PROVE  Placed(before, w) = Placed(after, w)
  BY DEF OneWindowConfines
<1>1. before \in Code /\ after \in Code /\ Matching(before, after, matched)
  BY MatchedIsMatching DEF IInv, Coded
<1>2. {w} \in SUBSET Window
  OBVIOUS
<1>3. Confined(before, after, matched, w)
  BY <1>1, <1>2, OutsideIsMatched DEF Confined
<1>4. Confined(after, before, Converse(matched), w)
  BY <1>3, ConfinedConverse
<1> QED
  BY <1>3, <1>4, PlacedInOther

---------------------------------------------------------------------------
(* The order in which regions are aligned.                                 *)

Found(g) == IF Runs(g) = {} THEN {} ELSE Pairs(LongestRun(Runs(g)))

Parts(g) == IF Runs(g) = {} THEN {} ELSE Rest(g, LongestRun(Runs(g)))

Closed(S) == \A g \in S : Parts(g) \subseteq S

\* A region, its parts, their parts and so on.
Descendants(g) == {h \in Region : \A S \in SUBSET Region : g \in S /\ Closed(S) => h \in S}

MatchesOf(g) == UNION {Found(h) : h \in Descendants(g)}

MatchesToCome == UNION {MatchesOf(g) : g \in regions}

\* What is matched and what is to come is the same at all times.
OneOutcome ==
  /\ regions \subseteq Region
  /\ matched \cup MatchesToCome = MatchesOf(Whole)

LEMMA AlignTakes ==
  ASSUME Align
  PROVE  \E g \in regions : /\ matched' = matched \cup Found(g)
                            /\ regions' = (regions \ {g}) \cup Parts(g)
<1>1. PICK g \in regions :
        LET r == LongestRun(Runs(g)) IN
        IF Runs(g) = {}
        THEN regions' = regions \ {g} /\ UNCHANGED matched
        ELSE /\ matched' = matched \cup Pairs(r)
             /\ regions' = (regions \ {g}) \cup Rest(g, r)
  BY DEF Align
<1>2. CASE Runs(g) = {}
  BY <1>1, <1>2 DEF Found, Parts
<1>3. CASE Runs(g) # {}
  BY <1>1, <1>3 DEF Found, Parts
<1> QED
  BY <1>2, <1>3

LEMMA PartsAreRegions ==
  ASSUME NEW g \in Region
  PROVE  Parts(g) \subseteq Region
<1> SUFFICES ASSUME Runs(g) # {} PROVE Rest(g, LongestRun(Runs(g))) \subseteq Region
  BY DEF Parts
<1>1. g.a1 \in Nat /\ g.a2 \in Nat /\ g.b1 \in Nat /\ g.b2 \in Nat
  BY DEF Region
<1>2. \A r \in Runs(g) : r.a \in Nat /\ r.b \in Nat /\ r.size \in Nat /\ r.size <= MaxLength
  <2> SUFFICES ASSUME NEW r \in Runs(g)
               PROVE  r.a \in Nat /\ r.b \in Nat /\ r.size \in Nat /\ r.size <= MaxLength
    OBVIOUS
  <2>1. r.a \in g.a1..g.a2 /\ r.b \in g.b1..g.b2 /\ r.size \in 1..MaxLength
    BY DEF Runs
  <2> QED
    BY <1>1, <2>1, BoundsAssumption
<1>3. PICK r \in Runs(g) : r = LongestRun(Runs(g))
  BY <1>2, LongestRunExists
<1>4. r.a \in Nat /\ r.b \in Nat /\ r.size \in Nat
  BY <1>2
<1>5. ASSUME NEW h \in Rest(g, r) PROVE h \in Region
  <2>1. /\ h.a1 <= h.a2 /\ h.b1 <= h.b2
        /\ h \in {[a1 |-> g.a1, a2 |-> r.a - 1, b1 |-> g.b1, b2 |-> r.b - 1],
                  [a1 |-> r.a + r.size, a2 |-> g.a2, b1 |-> r.b + r.size, b2 |-> g.b2]}
    BY DEF Rest
  <2>2. CASE h = [a1 |-> g.a1, a2 |-> r.a - 1, b1 |-> g.b1, b2 |-> r.b - 1]
    <3>1. g.a1 <= r.a - 1 /\ g.b1 <= r.b - 1
      BY <2>1, <2>2
    <3>2. r.a - 1 \in Nat /\ r.b - 1 \in Nat
      BY <1>1, <1>4, <3>1
    <3> QED
      BY <1>1, <2>2, <3>2 DEF Region
  <2>3. CASE h = [a1 |-> r.a + r.size, a2 |-> g.a2, b1 |-> r.b + r.size, b2 |-> g.b2]
    <3>1. r.a + r.size \in Nat /\ r.b + r.size \in Nat
      BY <1>4
    <3> QED
      BY <1>1, <2>3, <3>1 DEF Region
  <2> QED
    BY <2>1, <2>2, <2>3
<1> QED
  BY <1>3, <1>5

\* What a region will give is what its run gives and what its parts will.
LEMMA MatchesOfParts ==
  ASSUME NEW g \in Region
  PROVE  MatchesOf(g) = Found(g) \cup UNION {MatchesOf(k) : k \in Parts(g)}
<1> DEFINE T == {g} \cup UNION {Descendants(k) : k \in Parts(g)}
<1>1. Parts(g) \subseteq Region
  BY PartsAreRegions
<1>2. \A k \in Region : k \in Descendants(k)
  BY DEF Descendants
<1>3. T \subseteq Region
  BY DEF Descendants
<1>4. \A k \in Region : \A x \in Descendants(k) : Parts(x) \subseteq Descendants(k)
  <2> SUFFICES ASSUME NEW k \in Region, NEW x \in Descendants(k), NEW y \in Parts(x)
               PROVE  y \in Descendants(k)
    OBVIOUS
  <2>1. x \in Region
    BY DEF Descendants
  <2>2. y \in Region
    BY <2>1, PartsAreRegions
  <2>3. ASSUME NEW S \in SUBSET Region, k \in S, Closed(S) PROVE y \in S
    <3>1. x \in S
      BY <2>3 DEF Descendants
    <3> QED
      BY <2>3, <3>1 DEF Closed
  <2> QED
    BY <2>2, <2>3 DEF Descendants
<1>5. Closed(T)
  <2> SUFFICES ASSUME NEW x \in T, NEW y \in Parts(x) PROVE y \in T
    BY DEF Closed
  <2>1. CASE x = g
    BY <1>1, <1>2, <2>1
  <2>2. CASE x # g
    <3>1. PICK k \in Parts(g) : x \in Descendants(k)
      BY <2>2
    <3>2. y \in Descendants(k)
      BY <1>1, <1>4, <3>1
    <3> QED
      BY <3>2
  <2> QED
    BY <2>1, <2>2
<1>6. Descendants(g) \subseteq T
  BY <1>3, <1>5 DEF Descendants
<1>7. T \subseteq Descendants(g)
  <2>1. g \in Descendants(g)
    BY <1>2
  <2>2. ASSUME NEW k \in Parts(g), NEW h \in Descendants(k) PROVE h \in Descendants(g)
    <3>1. ASSUME NEW S \in SUBSET Region, g \in S, Closed(S) PROVE h \in S
      <4>1. k \in S
        BY <3>1 DEF Closed
      <4> QED
        BY <3>1, <4>1 DEF Descendants
    <3> QED
      BY <3>1 DEF Descendants
  <2> QED
    BY <2>1, <2>2
<1>8. Descendants(g) = T
  BY <1>6, <1>7
<1>9. ASSUME NEW m PROVE m \in MatchesOf(g) <=> m \in Found(g) \/ \E k \in Parts(g) : m \in MatchesOf(k)
  BY <1>8 DEF MatchesOf
<1> QED
  BY <1>9

LEMMA OneOutcomeStep ==
  ASSUME OneOutcome, [DiffNext]_diffVars
  PROVE  OneOutcome'
<1>1. before' = before /\ after' = after
  BY DEF DiffNext, Align, diffVars
<1>2. \A g : Runs(g)' = Runs(g)
  BY <1>1 DEF Runs
<1>3. \A g : Found(g)' = Found(g) /\ Parts(g)' = Parts(g)
  BY <1>2 DEF Found, Parts
<1>4. \A S : Closed(S)' <=> Closed(S)
  BY <1>3 DEF Closed
<1>5. \A g : Descendants(g)' = Descendants(g)
  BY <1>4 DEF Descendants
<1>6. \A g : MatchesOf(g)' = MatchesOf(g)
  BY <1>3, <1>5 DEF MatchesOf
<1>7. MatchesOf(Whole)' = MatchesOf(Whole)
  <2>1. Whole' = Whole
    BY <1>1 DEF Whole
  <2> QED
    BY <1>3, <1>5, <2>1 DEF MatchesOf
<1>8. CASE UNCHANGED diffVars
  BY <1>6, <1>7, <1>8 DEF diffVars, OneOutcome, MatchesToCome
<1>9. CASE Align
  <2>1. PICK g \in regions : /\ matched' = matched \cup Found(g)
                             /\ regions' = (regions \ {g}) \cup Parts(g)
    BY <1>9, AlignTakes
  <2>2. regions' \subseteq Region
    BY <2>1, PartsAreRegions DEF OneOutcome
  <2>3. MatchesOf(g) = Found(g) \cup UNION {MatchesOf(k) : k \in Parts(g)}
    BY MatchesOfParts DEF OneOutcome
  <2>4. MatchesToCome' = UNION {MatchesOf(h) : h \in regions'}
    BY <1>6 DEF MatchesToCome
  <2>5. matched' \cup MatchesToCome' = matched \cup MatchesToCome
    BY <2>1, <2>3, <2>4 DEF MatchesToCome
  <2> QED
    BY <1>7, <2>2, <2>5 DEF OneOutcome
<1> QED
  BY <1>8, <1>9 DEF DiffNext

\* Whichever open region is the next, the alignment ends with the same
\* matches.
OneAlignment == Aligned => matched = MatchesOf(Whole)

LEMMA OneOutcomeInit == DiffInit => OneOutcome
<1> SUFFICES ASSUME DiffInit PROVE OneOutcome
  OBVIOUS
<1>1. before \in Code /\ after \in Code /\ regions = {Whole} /\ matched = {}
  BY DEF DiffInit, Whole
<1>2. Whole \in Region
  BY <1>1, PcIsNat DEF Whole, Region
<1> QED
  BY <1>1, <1>2 DEF OneOutcome, MatchesToCome

---------------------------------------------------------------------------
(* The end of the alignment.                                               *)

OpenPlaces == UNION {g.a1..g.a2 : g \in regions}

\* Each round closes at least one of the parent's places and opens none, so
\* that the alignment is over after as many rounds as the parent has
\* instructions, if not before.
AlignEnds ==
  [][Align => OpenPlaces' \subseteq OpenPlaces /\ OpenPlaces' # OpenPlaces]_diffVars

LEMMA AlignCloses ==
  ASSUME IInv, Align
  PROVE  OpenPlaces' \subseteq OpenPlaces /\ OpenPlaces' # OpenPlaces
<1>1. PICK g \in regions : regions' = (regions \ {g}) \cup Parts(g)
  BY AlignTakes
<1>2. Coded /\ Boxed(g) /\ OpenRegions
  BY DEF IInv, OpenRegions
<1>3. g.a1 \in Nat /\ g.a2 \in Nat /\ g.b1 \in Nat /\ g.b2 \in Nat /\ g.a1 <= g.a2
  BY <1>2, BoxedPlaces DEF Boxed
<1>4. \A h \in Parts(g) : Boxed(h) /\ g.a1 <= h.a1 /\ h.a2 <= g.a2
  BY <1>2, RestFacts, ChosenRun DEF Parts
<1>5. \A h \in regions' : h.a1 \in Nat /\ h.a2 \in Nat
  BY <1>1, <1>2, <1>4, BoxedPlaces DEF OpenRegions
<1>6. OpenPlaces' \subseteq OpenPlaces
  <2> SUFFICES ASSUME NEW h \in regions', NEW i \in h.a1..h.a2
               PROVE  \E k \in regions : i \in k.a1..k.a2
    BY DEF OpenPlaces
  <2>1. CASE h \in Parts(g)
    BY <1>3, <1>4, <1>5, <2>1
  <2>2. CASE h \in regions
    BY <2>2
  <2> QED
    BY <1>1, <2>1, <2>2
<1>7. ASSUME NEW i \in g.a1..g.a2, NEW h \in regions \ {g}
      PROVE  i \notin h.a1..h.a2
  <2>1. LeftOf(g, h) \/ LeftOf(h, g)
    BY <1>2 DEF OpenRegions
  <2>2. h.a1 \in Nat /\ h.a2 \in Nat
    BY <1>2, BoxedPlaces DEF OpenRegions
  <2> QED
    BY <1>3, <2>1, <2>2 DEF LeftOf
<1>8. PICK i \in g.a1..g.a2 : \A h \in Parts(g) : i \notin h.a1..h.a2
  <2>1. CASE Runs(g) = {}
    <3>1. Parts(g) = {} /\ g.a1 \in g.a1..g.a2
      BY <1>3, <2>1 DEF Parts
    <3> QED
      BY <3>1
  <2>2. CASE Runs(g) # {}
    <3> DEFINE r == LongestRun(Runs(g))
    <3>1. r \in Runs(g) /\ Parts(g) = Rest(g, r)
      BY <1>2, <2>2, ChosenRun DEF Parts
    <3> HIDE DEF r
    <3>2. r.a \in Nat /\ r.size \in Nat /\ r.size >= 1 /\ g.a1 <= r.a /\ r.a + r.size - 1 <= g.a2
      BY <1>2, <3>1, RunFacts
    <3>3. \A h \in Parts(g) : h.a2 < r.a \/ h.a1 >= r.a + r.size
      BY <1>2, <3>1, RestFacts
    <3>4. \A h \in Parts(g) : h.a1 \in Nat /\ h.a2 \in Nat
      BY <1>1, <1>5
    <3>5. r.a \in g.a1..g.a2
      BY <1>3, <3>2
    <3>6. \A h \in Parts(g) : r.a \notin h.a1..h.a2
      BY <3>2, <3>3, <3>4
    <3> QED
      BY <3>5, <3>6
  <2> QED
    BY <2>1, <2>2
<1>9. i \in OpenPlaces
  BY DEF OpenPlaces
<1>10. i \notin OpenPlaces'
  BY <1>1, <1>7, <1>8 DEF OpenPlaces
<1> QED
  BY <1>6, <1>9, <1>10

---------------------------------------------------------------------------
(* Theorems.                                                               *)

\* A change is seen, however the instructions were aligned
\* (code_object_diff.py compare, nonempty).
THEOREM ChangeIsSeenAlways == DiffSpec => []ChangeIsSeen
  BY Invariant, ChangeIsSeenNow, PTL

\* Outside any set of declared windows that holds every change, both codes
\* have the same instructions in the same order (code_object_diff.py compare,
\* within_declared_windows).
THEOREM AnyWindowsKeepAlways == DiffSpec => []AnyWindowsKeep
  BY Invariant, AnyWindowsKeepNow, PTL

\* The same of any two windows, as the run checks it.
THEOREM OutsideIsKeptAlways == DiffSpec => []OutsideIsKept
  BY Invariant, OutsideIsKeptNow, PTL

\* With one window that ends at the same place in codes of the same length,
\* everything outside it is the same instruction at the same address
\* (code_object_diff.py compare; references/assembly-backend.md).
THEOREM OneWindowConfinesAlways == DiffSpec => []OneWindowConfines
  BY Invariant, OneWindowConfinesNow, PTL

\* The alignment's outcome does not depend on the order in which it takes the
\* regions, which difflib keeps on a stack
\* (difflib.SequenceMatcher.get_matching_blocks, as compare calls it).
THEOREM OneAlignmentAlways == DiffSpec => []OneAlignment
<1>1. OneOutcome => OneAlignment
  BY DEF OneOutcome, OneAlignment, Aligned, MatchesToCome
<1>2. OneOutcome /\ [DiffNext]_diffVars => OneOutcome'
  BY OneOutcomeStep
<1> QED
  BY OneOutcomeInit, <1>1, <1>2, PTL DEF DiffSpec

\* The alignment ends (code_object_diff.py compare; a round is an iteration
\* of difflib.SequenceMatcher.get_matching_blocks).
THEOREM AlignEndsAlways == DiffSpec => AlignEnds
<1> DEFINE Closes == Align => OpenPlaces' \subseteq OpenPlaces /\ OpenPlaces' # OpenPlaces
<1>1. IInv => [Closes]_diffVars
  BY AlignCloses
<1>2. AlignEnds <=> [][Closes]_diffVars
  BY DEF AlignEnds
<1> HIDE DEF Closes
<1> QED
  BY <1>1, <1>2, Invariant, PTL
=============================================================================
