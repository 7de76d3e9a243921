------------------------------ MODULE Readiness ------------------------------
(***************************************************************************)
(* The readiness of an agent for a task, computed from its decisions in a  *)
(* window of days (packages/core/src/readiness.ts). A set of decisions is  *)
(* a set of records that their id tells apart. Rates are exact ratios;     *)
(* confidence is in tenths.                                               *)
(***************************************************************************)
EXTENDS Integers, FiniteSetsExt

CONSTANT WindowDays  \* READINESS_WINDOW_DAYS, in the days the times count

Absent == "ABSENT"
NoConfidence == -1
Verdicts == {"PENDING", "ACCEPTED", "OVERRIDDEN", "ESCALATED", "FAILED"}
Outcomes == {"SUCCESS", "PARTIAL", "FAILURE"}

------------------------------------------------------------------------------
(* Ratios *)

Ratio(n, d) == IF d = 0 THEN [num |-> 0, den |-> 1] ELSE [num |-> n, den |-> d]
Complement(r) == [r EXCEPT !.num = r.den - r.num]
Plus(r, s) == [num |-> r.num * s.den + s.num * r.den, den |-> r.den * s.den]
Weighted(w, r) == [r EXCEPT !.num = w * r.num]
AtMost(r, n) == r.num <= n * r.den
NotAbove(r, s) == r.num * s.den <= s.num * r.den
AtLeast(r, n) == r.num >= n * r.den

Among(ds, kinds) == {d \in ds : d.verdict \in kinds}

------------------------------------------------------------------------------
(* The window and the four rates *)

\* Both ends belong to the window.
InWindow(at, asOf) == asOf - WindowDays <= at /\ at <= asOf

Windowed(ds, asOf) == {d \in ds : InWindow(d.at, asOf)}
ResolvedOf(ds) == {d \in ds : d.verdict # "PENDING"}

\* What the outcome says a decision earned, in halves, else what its verdict says.
OutcomeCredit(d) ==
  CASE d.outcome = "SUCCESS" -> 2
    [] d.outcome = "PARTIAL" -> 1
    [] d.outcome = "FAILURE" -> 0
    [] d.outcome = Absent -> IF d.verdict = "ACCEPTED" THEN 2 ELSE 0

\* An overridden decision earns nothing, whatever came of it.
Credit(d) == IF d.verdict = "OVERRIDDEN" THEN 0 ELSE OutcomeCredit(d)

\* An escalated decision is not graded.
Graded(r) == r \ Among(r, {"ESCALATED"})
Engaged(r) == Among(r, {"ACCEPTED", "OVERRIDDEN"})
Confident(r) == {d \in r : d.confidence # NoConfidence}

DeriveAccuracy(r) ==
  Ratio(SumFunction([d \in Graded(r) |-> Credit(d)]), 2 * Cardinality(Graded(r)))
DeriveConfidence(r) ==
  Ratio(SumFunction([d \in Confident(r) |-> d.confidence]), 10 * Cardinality(Confident(r)))
DeriveOverride(r) == Ratio(Cardinality(Among(r, {"OVERRIDDEN"})), Cardinality(Engaged(r)))
DeriveEscalation(r) == Ratio(Cardinality(Among(r, {"ESCALATED"})), Cardinality(r))

------------------------------------------------------------------------------
(* The score and its band *)

\* READINESS_WEIGHTS, in hundredths.
Score(r) ==
  Plus(Plus(Weighted(40, DeriveAccuracy(r)), Weighted(25, DeriveConfidence(r))),
       Plus(Weighted(20, Complement(DeriveOverride(r))),
            Weighted(15, Complement(DeriveEscalation(r)))))

\* The bands a score may be read as. The code adds doubles: a sum that is exactly a
\* threshold may come out a hair above it, and then reads as the band over it.
ImpliedBands(score) ==
  {b \in {"SHADOW", "CO_PILOT", "SOLO"} :
     CASE b = "SHADOW" -> AtMost(score, 40)
       [] b = "CO_PILOT" -> AtLeast(score, 40) /\ AtMost(score, 70)
       [] b = "SOLO" -> AtLeast(score, 70)}

\* Mutant: a signal that is absent is renormalised away instead of withholding the score.
MissingRenormalised(r) == IF r = {} THEN {"overrideRate"} ELSE {}

\* The signals whose source data is absent.
Missing(r) ==
  {c \in {"accuracyRate", "confidenceAvg", "overrideRate", "escalationRate"} :
     \/ r = {}
     \/ c = "accuracyRate" /\ \A d \in r : d.outcome = Absent
     \/ c = "confidenceAvg" /\ Confident(r) = {}
     \/ c = "overrideRate" /\ Engaged(r) = {}}

NoScore == [num |-> -1, den |-> 1]

\* The number is withheld while any signal is missing.
ComputeReadiness(ds, asOf) ==
  LET w == Windowed(ds, asOf)
      r == ResolvedOf(w)
      scored == Missing(r) = {}
  IN [status |-> IF scored THEN "SCORED" ELSE "INSUFFICIENT",
      score |-> IF scored THEN Score(r) ELSE NoScore,
      bands |-> IF scored THEN ImpliedBands(Score(r)) ELSE {},
      missing |-> Missing(r),
      eventCount |-> Cardinality(w),
      resolvedCount |-> Cardinality(r)]
==============================================================================
