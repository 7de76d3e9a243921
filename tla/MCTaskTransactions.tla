-------------------------- MODULE MCTaskTransactions --------------------------
(* Two tasks of one agent and two requests at a time, for TLC. The thresholds of  *)
(* the policy are 1, so that each step of the engine takes a single ingest.       *)
EXTENDS TaskTransactions

\* A task that does not exist, one with an offer, one at the top
\* by an override, and one that is parked.
MCStartRows ==
  {NoRow,
   MkState("SHADOW", 0, 0, [toMode |-> "CO_PILOT", awaitingApproval |-> TRUE], 0, 3),
   MkState("SOLO", 0, 0, NoPending, 0, 3),
   MkState("SUSPENDED", 0, 0, NoPending, 0, 2)}

Ingest(rank, guardrail, drift) ==
  [reading |-> [impliedRank |-> rank, resolved |-> IF rank = NoRank THEN 0 ELSE 1],
   signals |-> [guardrail |-> guardrail, drift |-> drift, manual |-> "NONE"]]

\* A guardrail trip, a lost signal and a high score.
MCIngests ==
  {Ingest(3, TRUE, FALSE), Ingest(NoRank, FALSE, FALSE),
   Ingest(3, FALSE, FALSE)}
==============================================================================
