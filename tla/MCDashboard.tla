----------------------------- MODULE MCDashboard ------------------------------
EXTENDS Dashboard, TLC

CONSTANTS k1, k2

\* A task with an offer, and one that is parked.
MCBegun == k1 :> "OFFERED" @@ k2 :> "SUSPENDED"
=============================================================================
