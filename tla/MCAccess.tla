------------------------------- MODULE MCAccess -------------------------------
(* Two people and two addresses, one agent and two requests at a time, for TLC. *)
EXTENDS Access, TLC

CONSTANTS u1, u2, e1, e2

Member(id, subject, role) == [id |-> id, subject |-> subject, role |-> role]

\* Two owners; an owner and an invitation to deactivate; an owner alone, who has an
\* invitation of another address too.
MCStartMembers ==
  {e1 :> Member(1, u1, "OWNER") @@ e2 :> Member(2, u2, "OWNER"),
   e1 :> Member(1, u1, "OWNER") @@ e2 :> Member(2, Nobody, "OPERATOR"),
   e1 :> Member(1, u1, "OWNER") @@ e2 :> NoMember}
===============================================================================
