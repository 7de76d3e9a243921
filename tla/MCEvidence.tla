------------------------------ MODULE MCEvidence ------------------------------
(* The evidence of one agent with two tasks, for TLC. *)
EXTENDS Evidence, TLC

Say(verdict, outcome, confidence, source, usd) ==
  [verdict |-> verdict, outcome |-> outcome, confidence |-> confidence,
   source |-> source, usd |-> usd]

MCReports ==
  {Say("PENDING", Absent, NoConfidence, "gateway", 1),
   Say("PENDING", "SUCCESS", 9, "sdk", NoUsd),
   Say("ESCALATED", "PARTIAL", 6, "sdk", 2),
   Say("ACCEPTED", Absent, NoConfidence, "sdk", NoUsd),
   Say("OVERRIDDEN", "SUCCESS", 0, "sdk", NoUsd)}

MCJudgements ==
  {[verdict |-> "OVERRIDDEN", outcome |-> "PARTIAL"],
   [verdict |-> "FAILED", outcome |-> Absent],
   [verdict |-> Absent, outcome |-> "FAILURE"]}

Symmetry == Permutations(Sessions) \cup Permutations(Ids) \cup Permutations(Tasks)
==============================================================================
