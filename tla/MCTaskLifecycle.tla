--------------------------- MODULE MCTaskLifecycle ---------------------------
(* The lifecycle of one task, its read-model and the memory of its recomputes, *)
(* for TLC.                                                                    *)
EXTENDS RecomputeHistory, Fleet
==============================================================================
