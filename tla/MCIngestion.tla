----------------------------- MODULE MCIngestion -----------------------------
(* One reference of a producer that repeats its calls, two requests at a time, for TLC. *)
EXTENDS Ingestion

\* A pending decision, the same without a reference, a verdict, a later verdict that
\* withdraws it, an outcome without a time of its own.
MCCalls ==
  {MakeCall("decision", "sdk", "r", Absent, Absent, 1, FALSE),
   MakeCall("decision", "sdk", NoRef, "FAILED", Absent, 1, TRUE),
   MakeCall("verdict", "sdk", "r", "FAILED", Absent, 1, FALSE),
   MakeCall("verdict", "sdk", "r", "PENDING", Absent, 2, FALSE),
   MakeCall("verdict", "connector", "r", Absent, "FAILURE", NoTime, FALSE)}

\* A rule about a verdict, and one about what two events say together.
MCRules == <<Rule("FAILED", "FAILURE"), Rule("FAILED", Absent)>>
==============================================================================
