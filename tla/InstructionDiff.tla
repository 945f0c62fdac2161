-------------------------- MODULE InstructionDiff --------------------------
(***************************************************************************)
(* code_object_diff.py's compare: does the code of a candidate differ from *)
(* its parent's, and only in the windows that the proposal declares?  The  *)
(* two disassemblies are sequences of instruction texts; an instruction's  *)
(* address follows from the sizes of those before it.                      *)
(*                                                                         *)
(* The alignment is difflib's: the longest run of equal instructions is    *)
(* matched, then what is left of it and what is right of it.  difflib      *)
(* keeps the regions that are still to be aligned on a stack; here any of  *)
(* them may be the next.                                                   *)
(***************************************************************************)
EXTENDS Integers, Sequences, FiniteSets

CONSTANTS
  Text,       \* the normalized instructions
  Size,       \* their sizes, in words
  MaxLength,  \* bound: instructions of a kernel
  MaxPc       \* bound: the last address of a window

ASSUME SizeAssumption == Size \in [Text -> Nat \ {0}]
ASSUME BoundsAssumption == MaxLength \in Nat \ {0} /\ MaxPc \in Nat

\* _instructions: a disassembly is not empty.
Code == UNION {[1..n -> Text] : n \in 1..MaxLength}

VARIABLES before,   \* the disassembly of the parent
          after,    \* the disassembly of the candidate
          regions,  \* what is still to be aligned, places a1..a2 with b1..b2
          matched   \* the pairs of places that are matched

diffVars == <<before, after, regions, matched>>

---------------------------------------------------------------------------
(* difflib.SequenceMatcher with autojunk off.                              *)

Region == [a1 : Nat, a2 : Nat, b1 : Nat, b2 : Nat]

\* The runs of equal instructions in a region.
Runs(g) ==
  {r \in [a : g.a1..g.a2, b : g.b1..g.b2, size : 1..MaxLength] :
     /\ r.a + r.size - 1 <= g.a2 /\ r.b + r.size - 1 <= g.b2
     /\ \A n \in 0..(r.size - 1) : before[r.a + n] = after[r.b + n]}

\* The longer one first, then the first in before, then the first in after.
Precedes(r, q) ==
  \/ r.size > q.size
  \/ r.size = q.size /\ r.a < q.a
  \/ r.size = q.size /\ r.a = q.a /\ r.b <= q.b

LongestRun(runs) == CHOOSE r \in runs : \A q \in runs : Precedes(r, q)

Pairs(r) == {<<r.a + n, r.b + n>> : n \in 0..(r.size - 1)}

\* What a run leaves of its region, on either side, where neither code is
\* used up.
Rest(g, r) ==
  {h \in {[a1 |-> g.a1, a2 |-> r.a - 1, b1 |-> g.b1, b2 |-> r.b - 1],
          [a1 |-> r.a + r.size, a2 |-> g.a2, b1 |-> r.b + r.size, b2 |-> g.b2]} :
     h.a1 <= h.a2 /\ h.b1 <= h.b2}

Align ==
  /\ \E g \in regions :
       LET r == LongestRun(Runs(g)) IN
       IF Runs(g) = {}
       THEN regions' = regions \ {g} /\ UNCHANGED matched
       ELSE /\ matched' = matched \cup Pairs(r)
            /\ regions' = (regions \ {g}) \cup Rest(g, r)
  /\ UNCHANGED <<before, after>>

Aligned == regions = {}

---------------------------------------------------------------------------
(* compare.                                                                *)

\* The words of the instructions before place i, one word a pair.
Preceding(code, i) == UNION {{k} \X (1..Size[code[k]]) : k \in 1..(i - 1)}

Pc(code, i) == Cardinality(Preceding(code, i))

\* The instructions in the opcodes other than `equal`.
ChangedBefore == {i \in DOMAIN before : \A m \in matched : m[1] # i}

ChangedAfter == {j \in DOMAIN after : \A m \in matched : m[2] # j}

ChangedPcsOfBefore == {Pc(before, i) : i \in ChangedBefore}

ChangedPcs == {Pc(before, i) : i \in ChangedBefore} \cup {Pc(after, j) : j \in ChangedAfter}

NonemptyOfAfter == ChangedAfter # {}

Nonempty == ChangedBefore # {} \/ ChangedAfter # {}

InWindowOrNext(pc, w) == w[1] <= pc /\ pc <= w[2] + 1

InWindow(pc, w) == w[1] <= pc /\ pc <= w[2]

InSome(pc, windows) == \E w \in windows : InWindow(pc, w)

\* within_declared_windows, of a diff that is not empty.
Within(pcs, windows) == \A pc \in pcs : InSome(pc, windows)

\* _load and _instructions have taken both disassemblies.
DiffInit ==
  /\ before \in Code /\ after \in Code
  /\ regions = {[a1 |-> 1, a2 |-> Len(before), b1 |-> 1, b2 |-> Len(after)]}
  /\ matched = {}

DiffNext == Align \/ (Aligned /\ UNCHANGED diffVars)

DiffSpec == DiffInit /\ [][DiffNext]_diffVars

---------------------------------------------------------------------------
(* Correctness.                                                            *)

\* _parse_windows lets no window be reversed.
Window == {w \in (0..MaxPc) \X (0..MaxPc) : w[1] <= w[2]}

\* A candidate whose code is its parent's is always told from one whose code
\* differs, whichever way the instructions were aligned (compare, nonempty).
ChangeIsSeen == Aligned => (Nonempty <=> before # after)

\* The places of code whose instructions are outside the windows.
Outside(code, windows) ==
  {i \in DOMAIN code : \A w \in windows : Pc(code, i) < w[1] \/ Pc(code, i) > w[2]}

\* What is outside the windows of one code is in the other, in its order.
KeptIn(code, other, windows) ==
  LET outside == Outside(code, windows) IN
  \E f \in [outside -> DOMAIN other] :
    /\ \A i, k \in outside : i < k => f[i] < f[k]
    /\ \A i \in outside : other[f[i]] = code[i]

KeepsOutside(windows) == KeptIn(before, after, windows) /\ KeptIn(after, before, windows)

\* What a diff that keeps to any two windows lets through has lost no
\* instruction of the parent that was outside them, has them in their order,
\* and has no instruction outside them that the parent did not have
\* (compare, within_declared_windows).
OutsideIsKept ==
  Aligned /\ Nonempty =>
    LET pcs == ChangedPcs IN
    \A w1, w2 \in Window :
      w1[1] <= w2[1] /\ Within(pcs, {w1, w2}) => KeepsOutside({w1, w2})

\* The place after window w: of the first instruction past it, or the end.
PlaceAfter(code, w) ==
  CHOOSE i \in 1..(Len(code) + 1) :
    /\ i = Len(code) + 1 \/ Pc(code, i) > w[2]
    /\ \A k \in 1..(i - 1) : Pc(code, k) <= w[2]

EndOf(code, w) == Pc(code, PlaceAfter(code, w))

Words(code) == Pc(code, Len(code) + 1)

\* What is outside window w, and where.
Placed(code, w) == {<<Pc(code, i), code[i]>> : i \in Outside(code, {w})}

\* With one window whose end is the same place in both, and code of the same
\* length, everything outside the window is the same instruction at the same
\* address (compare; references/assembly-backend.md: "changed PCs remain in
\* the declared windows").
OneWindowConfines ==
  Aligned /\ Nonempty =>
    LET pcs == ChangedPcs IN
    \A w \in Window :
      /\ Within(pcs, {w})
      /\ Words(before) = Words(after)
      /\ EndOf(before, w) = EndOf(after, w)
      => Placed(before, w) = Placed(after, w)
=============================================================================
