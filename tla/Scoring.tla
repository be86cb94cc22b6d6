------------------------------ MODULE Scoring ------------------------------
(***************************************************************************)
(* compute_score of packages/scoring: a pure function of the findings in   *)
(* the order in which they are handed to it.  Points are counted in        *)
(* twentieths, the finest step that base deduction and a confidence in     *)
(* tenths can produce, so that the code's rounding to 4 places is exact.   *)
(* A finding is a record with cat, sev, conf (in tenths) and dedupe.       *)
(***************************************************************************)
EXTENDS Naturals, Sequences, Functions

Severities == {"critical", "high", "medium", "low", "informational"}

BaseDeduction(sev) ==
  CASE sev = "critical" -> 50 [] sev = "high" -> 20 [] sev = "medium" -> 10
    [] sev = "low" -> 4 [] OTHER -> 1

CategoryCap == 35 * 20
Perfect     == 100 * 20

Lesser(a, b) == IF a <= b THEN a ELSE b

\* The confidence is clamped to 0..1, and weighs the base deduction.
Deduction(f) == BaseDeduction(f.sev) * Lesser(f.conf, 10)

\* Mutant: duplicates are not looked for.
Counted_All(findings) == DOMAIN findings

\* The first of the findings that share a dedupe key counts.
Counted(findings) ==
  {i \in DOMAIN findings : \A j \in 1..(i-1) : findings[j].dedupe # findings[i].dedupe}

Categories(findings) == {findings[i].cat : i \in DOMAIN findings}

Loss(findings, cat) ==
  SumFunction([i \in {j \in Counted(findings) : findings[j].cat = cat} |->
                 Deduction(findings[i])])

CappedLoss(findings, cat) == Lesser(CategoryCap, Loss(findings, cat))

TotalLoss(findings) ==
  SumFunction([cat \in Categories(findings) |-> CappedLoss(findings, cat)])

compute_score(findings) == Perfect - Lesser(Perfect, TotalLoss(findings))
=============================================================================
