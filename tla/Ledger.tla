-------------------------------- MODULE Ledger --------------------------------
(***************************************************************************)
(* What recording promises to the producers, without requests, locks and   *)
(* rules: their reports are entered one at a time, in some order. No entry *)
(* is made twice or lost, and each report that is new advances the         *)
(* lifecycle by one step.                                                  *)
(***************************************************************************)
EXTENDS Naturals

CONSTANTS
  Refs,     \* the references that producers give
  Keys,     \* what a report is recognised by
  Reports,  \* what can be said: [type, key, ref, verdict, outcome]
  Absent    \* a column that a report does not give

VARIABLES
  entries,  \* what is entered of each reference
  advanced  \* how often the reports of a key have advanced the lifecycle

vars == <<entries, advanced>>

Nothing == [verdict |-> Absent, outcome |-> Absent]

Init ==
  /\ entries = [ref \in Refs |-> Nothing]
  /\ advanced = [k \in Keys |-> 0]

Or(value, otherwise) == IF value = Absent THEN otherwise ELSE value

\* A decision is entered once; without a reference it is only counted.
Enter(r) ==
  /\ r.type = "decision"
  /\ r.ref \in Refs => entries[r.ref] = Nothing
  /\ advanced' = [advanced EXCEPT ![r.key] = @ + 1]
  /\ entries' =
       [ref \in Refs |->
          IF ref = r.ref
          THEN [verdict |-> Or(r.verdict, "PENDING"), outcome |-> r.outcome]
          ELSE entries[ref]]

\* A verdict on it changes the columns that it gives and leaves the others; said again,
\* it does so again, but advances nothing.
Amend(r) ==
  /\ r.type = "verdict"
  /\ entries[r.ref] # Nothing
  /\ advanced' = [advanced EXCEPT ![r.key] = 1]
  /\ entries' =
       [entries EXCEPT ![r.ref] =
          [verdict |-> Or(r.verdict, @.verdict), outcome |-> Or(r.outcome, @.outcome)]]

Next == \E r \in Reports : Enter(r) \/ Amend(r)

Spec == Init /\ [][Next]_vars
=============================================================================
