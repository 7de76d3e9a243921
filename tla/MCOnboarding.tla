----------------------------- MODULE MCOnboarding -----------------------------
(* Two agents and two requests at a time, for TLC. *)
EXTENDS Onboarding, TLC

Symmetry == Permutations(Sessions) \cup Permutations(Agents)
===============================================================================
