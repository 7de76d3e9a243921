------------------------------ MODULE AccessProofs ------------------------------
(***************************************************************************)
(* The theorems of Access, for any number of people, addresses, agents and *)
(* requests in flight.                                                     *)
(*                                                                         *)
(* A request that was not overtaken sees the members as they were when it  *)
(* counted the owners (Counted), and an actor whose rows are as they were  *)
(* has the role it had (SameRole). What the reset counted and what came    *)
(* late account for every row between its statements (ResetInv).           *)
(***************************************************************************)
EXTENDS Access, FiniteSetTheorems, TLAPS

MemberKinds == {"SET_ROLE", "REMOVE"}
AdminKinds == PeopleKinds \cup AgentKinds

AdminRows ==
  [kind : AdminKinds, actor : Subjects, email : Emails \cup {NoEmail},
   role : Roles \cup {NoRole}, agent : Agents \cup {NoKey}, step : {"AUTHORISED", "READ"},
   seen : IdentityStates \cup {NoAgent}, stale : BOOLEAN, demoted : BOOLEAN]
LoginRows ==
  [kind : {"ME"}, actor : Subjects, email : Emails, step : {"UNBOUND", "INVITED"},
   seen : Nat, stale : BOOLEAN, demoted : BOOLEAN]

Typed ==
  /\ members \in [Emails -> MemberRows]
  /\ nextId \in Nat
  /\ identity \in [Agents -> IdentityStates \cup {NoAgent}]
  /\ request \in [Sessions -> AdminRows \cup LoginRows \cup {NoRequest}]
  /\ \A s \in Sessions :
       /\ request[s].kind \in PeopleKinds => request[s].email \in Emails
       /\ request[s].kind \in PeopleKinds \ {"REMOVE"} => request[s].role \in Roles
       /\ request[s].kind \in AgentKinds => request[s].agent \in Agents
  /\ unguarded \in BOOLEAN

\* A request that goes on to remove or to demote, and has not been overtaken, would still
\* pass the guard.
CountStands(q) ==
  q.kind \in MemberKinds /\ q.step = "READ" /\ ~q.stale =>
    Exists(q.email) /\ Passes(q, Owners(members))

Counted == \A s \in Sessions : CountStands(request[s])

PeopleInv == Typed /\ Counted /\ OwnersGoOnlyUnguarded /\ AuthorityIsRecent

ResetInv ==
  /\ rows \in [tasks : SUBSET Agents, decisions : Nat, scores : Nat]
  /\ \/ reset = NoReset
     \/ /\ reset.step \in {"COUNTED", "DECISIONS", "SCORES", "TASKS"}
        /\ reset = [step |-> reset.step, counted |-> reset.counted,
                    cleared |-> reset.cleared, late |-> reset.late]
        /\ reset.counted.decisions \in Nat /\ reset.cleared \in Nat /\ reset.late \in Nat
  /\ reset.step = "COUNTED" => reset.late = 0
  /\ reset.step \in {"DECISIONS", "SCORES", "TASKS"} =>
       rows.decisions = reset.counted.decisions + reset.late
  /\ reset.step \in {"SCORES", "TASKS"} =>
       reset.cleared <= rows.scores /\ rows.scores <= reset.cleared + reset.late

------------------------------------------------------------------------------
(* The steps of the requests *)

LEMMA InitHolds == Init => PeopleInv /\ ResetInv
<1> SUFFICES ASSUME Init PROVE PeopleInv /\ ResetInv
  OBVIOUS
<1>1. \A s \in Sessions : request[s].kind = "NONE"
  BY DEF Init, NoRequest
<1>2. nextId \in Nat
  BY AccessAssumption, FS_CardinalityType DEF Init
<1>3. Typed
  BY <1>1, <1>2, AccessAssumption DEF Typed, Init, PeopleKinds, AgentKinds, IdentityKinds
<1>4. Counted
  BY <1>1 DEF Counted, CountStands, MemberKinds
<1>5. OwnersGoOnlyUnguarded
  BY AccessAssumption DEF Init, OwnersGoOnlyUnguarded, Owners
<1>6. AuthorityIsRecent
  BY <1>1 DEF AuthorityIsRecent, PeopleKinds, AgentKinds, IdentityKinds
<1>7. ResetInv
  BY DEF Init, ResetInv, NoReset
<1> QED
  BY <1>3, <1>4, <1>5, <1>6, <1>7 DEF PeopleInv

\* The kinds of requests are told apart.
LEMMA Kinds ==
  /\ NoRequest.kind \notin AdminKinds \cup {"ME"}
  /\ "ME" \notin AdminKinds /\ MemberKinds \subseteq PeopleKinds
  /\ PeopleKinds \cap AgentKinds = {}
  BY DEF NoRequest, AdminKinds, MemberKinds, PeopleKinds, AgentKinds, IdentityKinds

LEMMA RequestIsTyped ==
  ASSUME Typed, NEW s \in Sessions
  PROVE  /\ request[s].kind \in AdminKinds => request[s] \in AdminRows
         /\ request[s].kind = "ME" => request[s] \in LoginRows
         /\ request[s] # NoRequest => request[s] \in AdminRows \cup LoginRows
  BY Kinds DEF Typed, AdminRows, LoginRows

\* An actor has the role it had, where no row is of another subject than it was, or is
\* another row of the same.
LEMMA SameRole ==
  ASSUME NEW u,
         \A e \in Emails : members'[e].subject = u \/ members[e].subject = u =>
           members'[e] = members[e]
  PROVE  RoleOf(u)' = RoleOf(u)
<1>1. RowsOf(u)' = RowsOf(u)
  BY DEF RowsOf, Exists
<1>2. CASE RowsOf(u) = {}
  BY <1>1, <1>2 DEF RoleOf
<1>3. CASE RowsOf(u) # {}
  <2>1. PICK e \in RowsOf(u) : e = CHOOSE x \in RowsOf(u) : TRUE
    BY <1>3
  <2>2. members'[e] = members[e]
    BY <2>1 DEF RowsOf
  <2> QED
    BY <1>1, <1>3, <2>1, <2>2 DEF RoleOf
<1> QED
  BY <1>2, <1>3

\* A change of the members is known to every request in flight.
LEMMA OvertakenIsTyped ==
  ASSUME Typed, NEW s \in Sessions, NEW m, request' = Overtaken(s, m), NEW x \in Sessions
  PROVE  /\ x = s \/ request[x] = NoRequest => request'[x] = NoRequest
         /\ x # s /\ request[x] # NoRequest =>
              /\ request'[x].kind = request[x].kind /\ request'[x].email = request[x].email
              /\ request'[x].actor = request[x].actor /\ request'[x].stale = TRUE
              /\ request[x] \in AdminRows =>
                   request'[x] \in AdminRows /\ request'[x].role = request[x].role
                     /\ request'[x].agent = request[x].agent
              /\ request[x] \in LoginRows => request'[x] \in LoginRows
<1>1. CASE x = s \/ request[x] = NoRequest
  BY <1>1 DEF Overtaken
<1>2. CASE x # s /\ request[x] # NoRequest
  <2> DEFINE D == request[x].demoted \/
                   \E e \in Emails : members[e].subject = request[x].actor /\ m[e] # members[e]
  <2>1. request'[x] = [request[x] EXCEPT !.stale = TRUE, !.demoted = D]
    BY <1>2 DEF Overtaken
  <2>2. D \in BOOLEAN
    <3>1. request[x].demoted \in BOOLEAN
      BY <1>2, RequestIsTyped DEF AdminRows, LoginRows
    <3> QED
      BY <3>1
  <2> HIDE DEF D
  <2>3. request[x] \in AdminRows \/ request[x] \in LoginRows
    BY <1>2, RequestIsTyped
  <2> QED
    BY <1>2, <2>1, <2>2, <2>3 DEF AdminRows, LoginRows
<1> QED
  BY <1>1, <1>2

\* One that is not told of it has an actor whom it does not concern.
LEMMA UndemotedIsUnchanged ==
  ASSUME Typed, NEW s \in Sessions, NEW m, request' = Overtaken(s, m), NEW x \in Sessions,
         x # s, request[x] # NoRequest, request'[x].demoted = FALSE
  PROVE  /\ request[x].demoted = FALSE
         /\ \A e \in Emails : members[e].subject = request[x].actor => m[e] = members[e]
<1> DEFINE D == request[x].demoted \/
                  \E e \in Emails : members[e].subject = request[x].actor /\ m[e] # members[e]
<1>1. request[x].demoted \in BOOLEAN
  BY RequestIsTyped DEF AdminRows, LoginRows
<1>2. request'[x].demoted = D
  <2>1. request'[x] = [request[x] EXCEPT !.stale = TRUE, !.demoted = D]
    BY DEF Overtaken
  <2>2. request[x] \in AdminRows \/ request[x] \in LoginRows
    BY RequestIsTyped
  <2> HIDE DEF D
  <2> QED
    BY <2>1, <2>2 DEF AdminRows, LoginRows
<1> QED
  BY <1>1, <1>2

\* What every change of the members keeps of the requests in flight.
LEMMA MembersChange ==
  ASSUME PeopleInv, NEW s \in Sessions, NEW m \in [Emails -> MemberRows],
         members' = m, request' = Overtaken(s, m), nextId' \in Nat, identity' = identity,
         unguarded' \in BOOLEAN,
         \A e \in Emails : m[e].subject \in Subjects /\ m[e] # members[e] =>
           m[e].subject = members[e].subject \/ RowsOf(m[e].subject) \subseteq {e}
  PROVE  Typed' /\ Counted' /\ AuthorityIsRecent'
<1>1. Typed
  BY DEF PeopleInv
<1>2. ASSUME NEW x \in Sessions
      PROVE  /\ request'[x] \in AdminRows \cup LoginRows \cup {NoRequest}
             /\ request'[x] = NoRequest \/
                  /\ request'[x].kind = request[x].kind /\ request'[x].email = request[x].email
                  /\ request'[x].actor = request[x].actor /\ request'[x].stale = TRUE
                  /\ x # s /\ request[x] # NoRequest
                  /\ request[x].kind \in AdminKinds =>
                       request'[x].role = request[x].role /\ request'[x].agent = request[x].agent
  <2>1. CASE x = s \/ request[x] = NoRequest
    BY <1>1, <2>1, OvertakenIsTyped
  <2>2. CASE x # s /\ request[x] # NoRequest
    <3>1. /\ request[x] \in AdminRows \cup LoginRows
          /\ request[x].kind \in AdminKinds => request[x] \in AdminRows
      BY <1>1, <2>2, RequestIsTyped
    <3> QED
      BY <1>1, <2>2, <3>1, OvertakenIsTyped
  <2> QED
    BY <2>1, <2>2
<1>3. Typed'
  <2>1. request' \in [Sessions -> AdminRows \cup LoginRows \cup {NoRequest}]
    BY <1>2 DEF Overtaken
  <2>2. \A x \in Sessions :
       /\ request'[x].kind \in PeopleKinds => request'[x].email \in Emails
       /\ request'[x].kind \in PeopleKinds \ {"REMOVE"} => request'[x].role \in Roles
       /\ request'[x].kind \in AgentKinds => request'[x].agent \in Agents
    BY <1>1, <1>2, Kinds DEF Typed, AdminKinds
  <2> QED
    BY <1>1, <2>1, <2>2 DEF Typed
<1>4. Counted'
  <2>1. ASSUME NEW x \in Sessions, request'[x].kind \in MemberKinds PROVE request'[x].stale = TRUE
    BY <1>2, <2>1, Kinds DEF AdminKinds
  <2> QED
    BY <2>1 DEF Counted, CountStands
<1>5. AuthorityIsRecent'
  <2> SUFFICES ASSUME NEW x \in Sessions, request'[x].kind \in AdminKinds,
                      ~request'[x].demoted, NEW u, u = request'[x].actor
               PROVE  Can(RoleOf(u)', PermissionOf(request'[x].kind))
    BY DEF AuthorityIsRecent, AdminKinds, Can, RoleOf, RowsOf, Exists
  <2>1. x # s /\ request[x] # NoRequest /\ request'[x].kind = request[x].kind
          /\ u = request[x].actor
    BY <1>2, Kinds
  <2>2. request[x] \in AdminRows
    BY <1>1, <2>1, RequestIsTyped
  <2>3. ~request[x].demoted /\ \A e \in Emails : members[e].subject = u => m[e] = members[e]
    <3>1. request'[x].demoted \in BOOLEAN
      BY <1>2, Kinds DEF AdminRows, LoginRows
    <3>2. request'[x].demoted = FALSE
      BY <3>1
    <3>3. /\ request[x].demoted = FALSE
          /\ \A e \in Emails : members[e].subject = request[x].actor => m[e] = members[e]
      BY <1>1, <2>1, <3>2, UndemotedIsUnchanged
    <3> QED
      BY <2>1, <3>3
  <2>4. Can(RoleOf(u), PermissionOf(request[x].kind)) /\ u \in Subjects
    BY <2>1, <2>2, <2>3 DEF PeopleInv, AuthorityIsRecent, AdminKinds, AdminRows
  <2>5. RowsOf(u) # {}
    BY <2>4 DEF Can, RoleOf, Roles, NoRole
  <2>6. ASSUME NEW e \in Emails, m[e].subject = u PROVE m[e] = members[e]
    <3> SUFFICES ASSUME m[e] # members[e] PROVE FALSE
      OBVIOUS
    <3>1. members[e].subject # u
      BY <2>3
    <3>2. RowsOf(u) \subseteq {e}
      BY <2>4, <2>6, <3>1
    <3> QED
      BY <2>5, <3>1, <3>2 DEF RowsOf
  <2>7. RoleOf(u)' = RoleOf(u)
    BY <2>3, <2>6, SameRole
  <2> QED
    BY <2>1, <2>4, <2>7
<1> QED
  BY <1>3, <1>4, <1>5

\* What a request that stands at some step has to satisfy.
Stands(r) ==
  /\ r \in AdminRows \cup LoginRows \cup {NoRequest}
  /\ r.kind \in PeopleKinds => r.email \in Emails
  /\ r.kind \in PeopleKinds \ {"REMOVE"} => r.role \in Roles
  /\ r.kind \in AgentKinds => r.agent \in Agents
  /\ CountStands(r)
  /\ r.kind \in AdminKinds => Can(RoleOf(r.actor), PermissionOf(r.kind)) \/ r.demoted

\* A step of one request that leaves the members alone.
LEMMA RequestStep ==
  ASSUME PeopleInv, NEW s \in Sessions, NEW r, Stands(r),
         request' = [request EXCEPT ![s] = r],
         UNCHANGED <<members, nextId, unguarded>>,
         identity' \in [Agents -> IdentityStates \cup {NoAgent}]
  PROVE  PeopleInv'
<1>1. \A x \in Sessions : request'[x] = IF x = s THEN r ELSE request[x]
  BY DEF PeopleInv, Typed
<1>2. Typed'
  BY <1>1 DEF PeopleInv, Typed, Stands
<1>3. Counted'
  BY <1>1 DEF PeopleInv, Counted, Stands, CountStands, Passes, Owners, Exists
<1>4. OwnersGoOnlyUnguarded'
  BY DEF PeopleInv, OwnersGoOnlyUnguarded, Owners
<1>5. AuthorityIsRecent'
  <2> SUFFICES ASSUME NEW x \in Sessions, request'[x].kind \in AdminKinds, NEW u,
                      u = request'[x].actor
               PROVE  Can(RoleOf(u)', PermissionOf(request'[x].kind)) \/ request'[x].demoted
    BY DEF AuthorityIsRecent, AdminKinds, Can, RoleOf, RowsOf, Exists
  <2>1. RoleOf(u)' = RoleOf(u)
    BY SameRole
  <2>2. CASE x = s
    BY <1>1, <2>1, <2>2 DEF Stands
  <2>3. CASE x # s
    BY <1>1, <2>1, <2>3 DEF PeopleInv, AuthorityIsRecent, AdminKinds
  <2> QED
    BY <2>2, <2>3
<1> QED
  BY <1>2, <1>3, <1>4, <1>5 DEF PeopleInv

\* A step of the members, the agents or the reset that leaves the requests alone.
LEMMA OtherStep ==
  ASSUME PeopleInv, UNCHANGED <<members, nextId, unguarded, request>>,
         identity' \in [Agents -> IdentityStates \cup {NoAgent}]
  PROVE  PeopleInv'
<1>1. Typed'
  BY DEF PeopleInv, Typed
<1>2. Counted'
  BY DEF PeopleInv, Counted, CountStands, Passes, Owners, Exists
<1>3. OwnersGoOnlyUnguarded'
  BY DEF PeopleInv, OwnersGoOnlyUnguarded, Owners
<1>4. AuthorityIsRecent'
  BY DEF PeopleInv, AuthorityIsRecent, Can, RoleOf, RowsOf, Exists
<1> QED
  BY <1>1, <1>2, <1>3, <1>4 DEF PeopleInv

LEMMA NoRequestStands == Stands(NoRequest)
  BY Kinds DEF Stands, CountStands, AdminKinds

\* What a request in flight satisfies.
LEMMA RequestStands ==
  ASSUME PeopleInv, NEW s \in Sessions
  PROVE  Stands(request[s])
  BY DEF PeopleInv, Typed, Counted, AuthorityIsRecent, Stands, AdminKinds

LEMMA ReadingStep ==
  ASSUME PeopleInv, NEW s \in Sessions,
         \/ AnswerNoRole(s) \/ BindFails(s) \/ ReadMember(s) \/ ReadAgent(s) \/ WriteAgent(s)
         \/ FindInvite(s)
  PROVE  PeopleInv'
<1>1. Typed /\ request \in [Sessions -> AdminRows \cup LoginRows \cup {NoRequest}]
        /\ identity \in [Agents -> IdentityStates \cup {NoAgent}]
  BY DEF PeopleInv, Typed
<1>2. ASSUME request' = Ended(s), UNCHANGED <<members, nextId, unguarded>>,
             identity' \in [Agents -> IdentityStates \cup {NoAgent}]
      PROVE  PeopleInv'
  BY <1>2, NoRequestStands, RequestStep DEF Ended
<1>3. CASE AnswerNoRole(s) \/ BindFails(s)
  BY <1>1, <1>2, <1>3 DEF AnswerNoRole, BindFails, Admin
<1>4. CASE FindInvite(s)
  <2> DEFINE r == [request[s] EXCEPT !.step = "INVITED", !.seen = members[request[s].email].id]
  <2>1. request[s] \in LoginRows /\ request[s].kind = "ME"
    BY <1>1, <1>4, RequestIsTyped DEF FindInvite, At
  <2>2. members[request[s].email].id \in Nat
    BY <1>1, <2>1 DEF LoginRows, Typed, MemberRows
  <2>3. r \in LoginRows /\ r.kind = "ME"
    BY <2>1, <2>2 DEF LoginRows
  <2>4. request' = [request EXCEPT ![s] = r]
    BY <1>1, <1>4 DEF FindInvite
  <2> HIDE DEF r
  <2>5. Stands(r)
    BY <2>3, Kinds DEF Stands, CountStands, AdminKinds
  <2>6. UNCHANGED <<members, nextId, unguarded, identity>>
    BY <1>4 DEF FindInvite, Admin
  <2> QED
    BY <1>1, <2>4, <2>5, <2>6, RequestStep
<1>5. CASE ReadMember(s)
  <2> DEFINE r == [request[s] EXCEPT !.step = "READ", !.stale = FALSE]
  <2>1. UNCHANGED <<members, nextId, unguarded, identity>>
    BY <1>5 DEF ReadMember, Admin
  <2>2. CASE request' = Ended(s)
    BY <1>1, <1>2, <2>1, <2>2
  <2>3. CASE /\ request' = [request EXCEPT ![s].step = "READ", ![s].stale = FALSE]
             /\ Exists(request[s].email) /\ Passes(request[s], Owners(members))
    <3>1. request[s] \in AdminRows /\ request[s].kind \in MemberKinds
      BY <1>1, <1>5, Kinds, RequestIsTyped DEF ReadMember, At, MemberKinds, AdminKinds
    <3>2. r \in AdminRows /\ r.kind = request[s].kind /\ r.email = request[s].email
            /\ r.role = request[s].role /\ r.agent = request[s].agent
            /\ r.actor = request[s].actor
            /\ r.demoted = request[s].demoted
      BY <3>1 DEF AdminRows
    <3>3. request' = [request EXCEPT ![s] = r]
      BY <1>1, <2>3
    <3> HIDE DEF r
    <3>4. CountStands(r)
      BY <2>3, <3>2 DEF CountStands, Passes, Lowers
    <3>5. Stands(r)
      BY <3>2, <3>4, RequestStands DEF Stands
    <3> QED
      BY <1>1, <2>1, <3>3, <3>5, RequestStep
  <2> QED
    BY <1>5, <2>2, <2>3 DEF ReadMember
<1>6. CASE ReadAgent(s)
  <2> DEFINE r == [request[s] EXCEPT !.step = "READ", !.seen = identity[request[s].agent]]
  <2>1. UNCHANGED <<members, nextId, unguarded, identity>>
    BY <1>6 DEF ReadAgent, People
  <2>2. CASE request' = Ended(s)
    BY <1>1, <1>2, <2>1, <2>2
  <2>3. CASE request' = [request EXCEPT ![s].step = "READ",
                                        ![s].seen = identity[request[s].agent]]
    <3>1. request[s] \in AdminRows /\ request[s].kind \in AgentKinds
      BY <1>1, <1>6, RequestIsTyped DEF ReadAgent, At, AdminKinds
    <3>2. request[s].agent \in Agents
      BY <1>1, <3>1 DEF Typed
    <3>3. r \in AdminRows /\ r.kind = request[s].kind /\ r.actor = request[s].actor
            /\ r.agent = request[s].agent /\ r.demoted = request[s].demoted
      BY <1>1, <3>1, <3>2 DEF AdminRows
    <3>4. request' = [request EXCEPT ![s] = r]
      BY <1>1, <2>3
    <3> HIDE DEF r
    <3>5. Stands(r)
      BY <3>1, <3>3, Kinds, RequestStands DEF Stands, CountStands
    <3> QED
      BY <1>1, <2>1, <3>4, <3>5, RequestStep
  <2> QED
    BY <1>6, <2>2, <2>3 DEF ReadAgent
<1>7. CASE WriteAgent(s)
  <2>1. request' = Ended(s) /\ UNCHANGED <<members, nextId, unguarded>>
    BY <1>7 DEF WriteAgent, People
  <2>2. identity' \in [Agents -> IdentityStates \cup {NoAgent}]
    <3>1. /\ request[s].kind \in AgentKinds /\ request[s].agent \in Agents
          /\ request[s].seen \in IdentityStates \cup {NoAgent}
      BY <1>1, <1>7, RequestIsTyped DEF WriteAgent, At, AdminKinds, AdminRows, Typed
    <3>2. request[s].kind \in IdentityKinds =>
            TransitionIdentity(request[s].seen, request[s].kind) \in IdentityStates \cup {NoAgent}
      BY <3>1 DEF TransitionIdentity, IdentityKinds, IdentityStates
    <3> QED
      BY <1>1, <1>7, <3>1, <3>2 DEF WriteAgent, AgentKinds, IdentityStates
  <2> QED
    BY <1>2, <2>1, <2>2
<1> QED
  BY <1>3, <1>4, <1>5, <1>6, <1>7

\* An owner is left by an invitation or by a request past the guard.
LEMMA MembersStep ==
  ASSUME PeopleInv, NEW s \in Sessions, Invite(s) \/ WriteMember(s) \/ Bind(s)
  PROVE  PeopleInv'
<1>1. Typed /\ members \in [Emails -> MemberRows] /\ nextId \in Nat /\ unguarded \in BOOLEAN
  BY DEF PeopleInv, Typed
<1>2. CASE Invite(s)
  <2>1. request[s].email \in Emails /\ request[s].role \in Roles
    BY <1>1, <1>2 DEF Invite, At, Typed, PeopleKinds
  <2> DEFINE e == request[s].email
             row == IF Exists(e) THEN [members[e] EXCEPT !.role = request[s].role]
                    ELSE [id |-> nextId, subject |-> Nobody, role |-> request[s].role]
             m == [members EXCEPT ![e] = row]
  <2>2. row \in MemberRows /\ row.subject \in {members[e].subject, Nobody}
    BY <1>1, <2>1 DEF MemberRows, Exists
  <2>3. members' = m /\ request' = Overtaken(s, m)
    BY <1>1, <1>2, <2>1 DEF Invite
  <2>4. m \in [Emails -> MemberRows] /\
        \A x \in Emails : m[x].subject \in {members[x].subject, Nobody}
    BY <1>1, <2>1, <2>2
  <2> HIDE DEF m
  <2>5. /\ nextId' \in Nat /\ identity' = identity
        /\ unguarded' = (unguarded \/ Owners(members') # Owners(members) \cup Owners(members'))
    BY <1>1, <1>2 DEF Invite, Admin
  <2>6. unguarded' \in BOOLEAN
    BY <2>5
  <2>7. Typed' /\ Counted' /\ AuthorityIsRecent'
    BY <2>3, <2>4, <2>5, <2>6, AccessAssumption, MembersChange
  <2>8. OwnersGoOnlyUnguarded'
    BY <1>1, <2>3, <2>5 DEF PeopleInv, OwnersGoOnlyUnguarded, Owners
  <2> QED
    BY <2>7, <2>8 DEF PeopleInv
<1>3. CASE WriteMember(s)
  <2>1. /\ request[s].email \in Emails /\ request[s].kind \in MemberKinds
        /\ request[s].kind # "REMOVE" => request[s].role \in Roles
        /\ request[s].step = "READ" /\ request[s] \in AdminRows
    BY <1>1, <1>3, Kinds, RequestIsTyped
       DEF WriteMember, At, Typed, PeopleKinds, MemberKinds, AdminKinds
  <2>2. CASE ~Exists(request[s].email)
    <3>1. request' = Ended(s) /\ UNCHANGED <<members, nextId, unguarded, identity>>
      BY <1>3, <2>2 DEF WriteMember, Admin
    <3>2. identity' \in [Agents -> IdentityStates \cup {NoAgent}]
      BY <1>1, <3>1 DEF Typed
    <3> QED
      BY <3>1, <3>2, NoRequestStands, RequestStep DEF Ended
  <2>3. CASE Exists(request[s].email)
    <3> DEFINE e == request[s].email
               row == IF request[s].kind = "REMOVE" THEN NoMember
                      ELSE [members[e] EXCEPT !.role = request[s].role]
               m == [members EXCEPT ![e] = row]
    <3>1. /\ row \in MemberRows /\ row.subject \in {members[e].subject, Nobody}
          /\ row.role = "OWNER" => ~Lowers(request[s])
      BY <1>1, <2>1 DEF MemberRows, NoMember, Lowers, NoRole
    <3>2. members' = m /\ request' = Overtaken(s, m)
      BY <1>1, <1>3, <2>1, <2>3 DEF WriteMember
    <3>3. m \in [Emails -> MemberRows] /\ m[e] = row /\
          \A x \in Emails : /\ m[x].subject \in {members[x].subject, Nobody}
                            /\ x # e => m[x] = members[x]
      BY <1>1, <2>1, <3>1
    <3>4. /\ nextId' \in Nat /\ identity' = identity
          /\ unguarded' = (unguarded \/ (request[s].stale /\ Lowers(request[s])))
      BY <1>1, <1>3, <2>3 DEF WriteMember, Admin
    <3>5. unguarded' \in BOOLEAN
      BY <3>4
    <3> HIDE DEF row, m
    <3>6. Typed' /\ Counted' /\ AuthorityIsRecent'
      BY <3>2, <3>3, <3>4, <3>5, AccessAssumption, MembersChange
    <3>7. OwnersGoOnlyUnguarded'
      <4> SUFFICES ASSUME Owners(m) = {} PROVE unguarded'
        BY <3>2 DEF OwnersGoOnlyUnguarded, Owners
      <4>1. CASE unguarded
        BY <3>4, <4>1
      <4>2. CASE ~unguarded
        <5>1. PICK x \in Owners(members) : TRUE
          BY <4>2 DEF PeopleInv, OwnersGoOnlyUnguarded
        <5>2. Owners(members) \subseteq {e}
          BY <3>3 DEF Owners
        <5>3. Owners(members) = {e} /\ Cardinality({e}) = 1
          BY <5>1, <5>2, FS_Singleton
        <5>4. row.role # "OWNER"
          BY <3>3, <2>1 DEF Owners
        <5>5. Lowers(request[s])
          BY <2>1, <3>1, <5>4 DEF row, Lowers, MemberKinds
        <5>6. ~Passes(request[s], Owners(members))
          BY <5>3, <5>5 DEF Passes
        <5>7. request[s].stale = TRUE
          BY <2>1, <5>6 DEF PeopleInv, Counted, CountStands, AdminRows
        <5> QED
          BY <3>4, <5>5, <5>7
      <4> QED
        BY <4>1, <4>2
    <3> QED
      BY <3>6, <3>7 DEF PeopleInv
  <2> QED
    BY <2>2, <2>3
<1>4. CASE Bind(s)
  <2>1. request[s] \in LoginRows
    BY <1>1, <1>4, RequestIsTyped DEF Bind, At
  <2> DEFINE e == request[s].email
             m == [members EXCEPT ![e].subject = request[s].actor]
  <2>2. e \in Emails /\ request[s].actor \in Subjects
    BY <2>1 DEF LoginRows
  <2>3. members[e] \in MemberRows
    BY <1>1, <2>2
  <2>4. /\ m \in [Emails -> MemberRows] /\ m[e].subject = request[s].actor
        /\ \A x \in Emails : m[x].role = members[x].role /\ (x # e => m[x] = members[x])
    BY <1>1, <2>2, <2>3 DEF MemberRows
  <2>5. /\ members' = m /\ request' = Overtaken(s, m) /\ RowsOf(request[s].actor) \subseteq {e}
        /\ nextId' = nextId /\ unguarded' = unguarded /\ identity' = identity
    BY <1>4 DEF Bind, Admin
  <2> HIDE DEF m
  <2>6. Typed' /\ Counted' /\ AuthorityIsRecent'
    BY <1>1, <2>4, <2>5, MembersChange
  <2>7. OwnersGoOnlyUnguarded'
    BY <2>4, <2>5 DEF PeopleInv, OwnersGoOnlyUnguarded, Owners
  <2> QED
    BY <2>6, <2>7 DEF PeopleInv
<1> QED
  BY <1>2, <1>3, <1>4

LEMMA BeginStep ==
  ASSUME PeopleInv, NEW s \in Sessions,
         \/ \E q \in AdminRequests : Authorise(s, q)
         \/ \E u \in Subjects, e \in Emails : FindBound(s, u, e)
  PROVE  PeopleInv'
<1>1. identity \in [Agents -> IdentityStates \cup {NoAgent}]
  BY DEF PeopleInv, Typed
<1>2. ASSUME NEW q \in AdminRequests, Authorise(s, q) PROVE PeopleInv'
  <2> DEFINE r == [kind |-> q.kind, actor |-> q.actor, email |-> q.email, role |-> q.role,
                   agent |-> q.agent, step |-> "AUTHORISED", seen |-> NoAgent,
                   stale |-> FALSE, demoted |-> FALSE]
  <2>1. /\ q.kind \in AdminKinds /\ q.actor \in Subjects
        /\ q.email \in Emails \cup {NoEmail} /\ q.role \in Roles \cup {NoRole}
        /\ q.agent \in Agents \cup {NoKey}
        /\ q.kind \in PeopleKinds => q.email \in Emails
        /\ q.kind \in PeopleKinds \ {"REMOVE"} => q.role \in Roles
        /\ q.kind \in AgentKinds => q.agent \in Agents
    BY DEF AdminRequests, AdminKinds, PeopleKinds, AgentKinds, IdentityKinds
  <2>2. r \in AdminRows
    BY <2>1 DEF AdminRows
  <2>3. Can(RoleOf(q.actor), PermissionOf(q.kind))
    BY <1>2 DEF Authorise, Authorised
  <2>4. Stands(r)
    BY <2>1, <2>2, <2>3 DEF Stands, CountStands
  <2>5. request' = [request EXCEPT ![s] = r] /\ UNCHANGED <<members, nextId, unguarded, identity>>
    BY <1>2 DEF Authorise
  <2> HIDE DEF r
  <2> QED
    BY <1>1, <2>4, <2>5, RequestStep
<1>3. ASSUME NEW u \in Subjects, NEW e \in Emails, FindBound(s, u, e) PROVE PeopleInv'
  <2> DEFINE r == [kind |-> "ME", actor |-> u, email |-> e, step |-> "UNBOUND", seen |-> 0,
                   stale |-> FALSE, demoted |-> FALSE]
  <2>1. r \in LoginRows
    BY DEF LoginRows
  <2>2. Stands(r)
    BY <2>1, Kinds DEF Stands, CountStands, AdminKinds
  <2>3. request' = [request EXCEPT ![s] = r] /\ UNCHANGED <<members, nextId, unguarded, identity>>
    BY <1>3 DEF FindBound
  <2> HIDE DEF r
  <2> QED
    BY <1>1, <2>2, <2>3, RequestStep
<1> QED
  BY <1>2, <1>3

\* The producers and the reset.
LEMMA EvidenceStep ==
  ASSUME PeopleInv,
         \/ \E a \in Agents : Register(a) \/ Contact(a)
         \/ CountAll \/ DeleteDecisions \/ DeleteScores \/ DeleteTasks \/ DeleteAgents
  PROVE  PeopleInv'
<1>1. identity \in [Agents -> IdentityStates \cup {NoAgent}]
  BY DEF PeopleInv, Typed
<1>2. ASSUME NEW a \in Agents, Register(a) PROVE PeopleInv'
  <2>1. identity' \in [Agents -> IdentityStates \cup {NoAgent}]
    BY <1>1, <1>2 DEF Register, IdentityStates
  <2> QED
    BY <1>2, <2>1, OtherStep DEF Register, People
<1>3. ASSUME NEW a \in Agents, Contact(a) PROVE PeopleInv'
  <2>1. identity' \in [Agents -> IdentityStates \cup {NoAgent}]
    BY <1>1, <1>3 DEF Contact, Contacted, IdentityStates
  <2> QED
    BY <1>3, <2>1, OtherStep DEF Contact, People
<1>4. CASE CountAll \/ DeleteDecisions \/ DeleteScores \/ DeleteTasks
  BY <1>1, <1>4, OtherStep DEF CountAll, DeleteDecisions, DeleteScores, DeleteTasks, Others
<1>5. CASE DeleteAgents
  <2>1. identity' \in [Agents -> IdentityStates \cup {NoAgent}]
    BY <1>1, <1>5 DEF DeleteAgents
  <2> QED
    BY <1>5, <2>1, OtherStep DEF DeleteAgents, People
<1> QED
  BY <1>2, <1>3, <1>4, <1>5

LEMMA PeopleStep ==
  ASSUME PeopleInv, [Next]_vars
  PROVE  PeopleInv'
<1>1. CASE UNCHANGED vars
  BY <1>1, OtherStep DEF vars, PeopleInv, Typed
<1>2. CASE Next
  BY <1>2, BeginStep, ReadingStep, MembersStep, EvidenceStep DEF Next
<1> QED
  BY <1>1, <1>2

------------------------------------------------------------------------------
(* The reset *)

LEMMA ResetStep ==
  ASSUME Typed, ResetInv, [Next]_vars
  PROVE  ResetInv'
<1> USE DEF ResetInv, NoReset
<1>1. ASSUME UNCHANGED <<rows, reset>> PROVE ResetInv'
  BY <1>1
<1>2. ASSUME NEW a \in Agents, Register(a) PROVE ResetInv'
  BY <1>2 DEF Register
<1>3. ASSUME NEW a \in Agents, Contact(a) PROVE ResetInv'
  BY <1>3 DEF Contact
<1>4. CASE CountAll
  BY <1>4 DEF CountAll, Counts
<1>5. CASE DeleteDecisions
  <2>1. CASE Tripwire(rows.decisions, reset.counted.decisions)
    BY <1>5, <2>1 DEF DeleteDecisions
  <2>2. CASE ~Tripwire(rows.decisions, reset.counted.decisions)
    <3>1. /\ reset' = [reset EXCEPT !.step = "DECISIONS"] /\ rows' = rows
          /\ rows.decisions = reset.counted.decisions /\ reset.step = "COUNTED"
      BY <1>5, <2>2 DEF DeleteDecisions, Tripwire
    <3>2. /\ reset'.step = "DECISIONS" /\ reset'.counted = reset.counted
          /\ reset'.cleared = reset.cleared /\ reset'.late = reset.late
          /\ reset' = [step |-> reset'.step, counted |-> reset'.counted,
                       cleared |-> reset'.cleared, late |-> reset'.late]
      BY <3>1
    <3> QED
      BY <3>1, <3>2
  <2> QED
    BY <2>1, <2>2
<1>6. CASE DeleteScores
  <2>1. CASE Tripwire(rows.scores, reset.counted.scores)
    BY <1>6, <2>1 DEF DeleteScores
  <2>2. CASE ~Tripwire(rows.scores, reset.counted.scores)
    <3>1. /\ reset' = [reset EXCEPT !.step = "SCORES", !.cleared = rows.scores] /\ rows' = rows
          /\ reset.step = "DECISIONS"
      BY <1>6, <2>2 DEF DeleteScores
    <3> DEFINE step == reset.step
               counted == reset.counted
               cleared == reset.cleared
               late == reset.late
               scores == rows.scores
    <3>2. reset = [step |-> step, counted |-> counted, cleared |-> cleared, late |-> late]
      BY <3>1
    <3> HIDE DEF step, counted, cleared, late, scores
    <3>3. reset' = [step |-> "SCORES", counted |-> counted, cleared |-> scores, late |-> late]
      BY <3>1, <3>2 DEF scores
    <3>4. rows.decisions = counted.decisions + late
      BY <3>1 DEF counted, late
    <3>5. counted.decisions \in Nat /\ late \in Nat /\ scores \in Nat
      BY <3>1 DEF counted, late, scores
    <3> QED
      <4>1. /\ reset'.step = "SCORES" /\ reset'.counted = counted
            /\ reset'.cleared = scores /\ reset'.late = late
            /\ reset' = [step |-> reset'.step, counted |-> reset'.counted,
                         cleared |-> reset'.cleared, late |-> reset'.late]
        BY <3>3
      <4>2. rows'.decisions = reset'.counted.decisions + reset'.late
        BY <3>1, <3>4, <4>1
      <4>3. reset'.cleared = rows'.scores
        BY <3>1, <4>1 DEF scores
      <4>4. rows' \in [tasks : SUBSET Agents, decisions : Nat, scores : Nat]
        BY <3>1
      <4> QED
        BY <3>5, <4>1, <4>2, <4>3, <4>4
  <2> QED
    BY <2>1, <2>2
<1>7. CASE DeleteTasks
  BY <1>7 DEF DeleteTasks, Tripwire
<1>8. CASE DeleteAgents
  BY <1>8 DEF DeleteAgents, Tripwire
<1>9. CASE \E s \in Sessions :
             \/ \E q \in AdminRequests : Authorise(s, q)
             \/ \E u \in Subjects, e \in Emails : FindBound(s, u, e)
             \/ Invite(s) \/ ReadMember(s) \/ WriteMember(s)
             \/ FindInvite(s) \/ AnswerNoRole(s) \/ Bind(s) \/ BindFails(s)
             \/ ReadAgent(s) \/ WriteAgent(s)
  BY <1>1, <1>9 DEF Authorise, FindBound, Invite, ReadMember, WriteMember, FindInvite,
                    AnswerNoRole, Bind, BindFails, ReadAgent, WriteAgent, Admin
<1>10. CASE UNCHANGED vars
  BY <1>1, <1>10 DEF vars
<1> QED
  BY <1>2, <1>3, <1>4, <1>5, <1>6, <1>7, <1>8, <1>9, <1>10 DEF Next

------------------------------------------------------------------------------
(* The theorems *)

IInv == PeopleInv /\ ResetInv

LEMMA Invariance == Spec => []IInv
<1>1. Init => IInv
  BY InitHolds DEF IInv
<1>2. IInv /\ [Next]_vars => IInv'
  BY PeopleStep, ResetStep DEF IInv, PeopleInv
<1> QED
  BY <1>1, <1>2, PTL DEF Spec

\* However many requests overlap, the organisation loses its last owner only past the
\* guard: by a count that was stale when it was used, or by an invitation.
THEOREM OwnersGoByStaleCounts == Spec => []OwnersGoOnlyUnguarded
  BY Invariance, PTL DEF IInv, PeopleInv

\* Every administrative request in flight is of someone with the authority for it, unless
\* its own membership changed after it was authorised.
THEOREM AuthorityHolds == Spec => []AuthorityIsRecent
  BY Invariance, PTL DEF IInv, PeopleInv

\* Who ends a deactivation or a retirement.
Undecides(a) ==
  \/ reset.step = "TASKS"
  \/ \E s \in Sessions :
       /\ At(s, IdentityKinds, "READ")
       /\ request[s].agent = a
       /\ identity[a] = "RETIRED" => request[s].seen # "RETIRED"

LEMMA IdentityStep ==
  ASSUME IInv, [Next]_vars, NEW a \in Agents, identity[a] \in {"DORMANT", "RETIRED"},
         identity'[a] # identity[a]
  PROVE  Undecides(a)
<1>1. Typed /\ identity \in [Agents -> IdentityStates \cup {NoAgent}]
  BY DEF IInv, PeopleInv, Typed
<1>2. NoAgent \notin {"DORMANT", "RETIRED"}
  BY DEF NoAgent
<1>3. CASE identity' = identity
  BY <1>3
<1>4. ASSUME NEW s \in Sessions, WriteAgent(s) PROVE Undecides(a)
  <2>1. request[s].kind \in AgentKinds /\ request[s].step = "READ" /\ request[s].agent \in Agents
    BY <1>1, <1>4 DEF WriteAgent, At, Typed
  <2>2. request[s].agent = a
    BY <1>1, <1>4, <2>1 DEF WriteAgent
  <2>3. request[s].kind # "PROVISION"
    BY <1>1, <1>2, <1>4, <2>1, <2>2 DEF WriteAgent
  <2>4. request[s].kind \in IdentityKinds
    BY <2>1, <2>3 DEF AgentKinds
  <2>5. identity'[a] = TransitionIdentity(request[s].seen, request[s].kind)
    BY <1>1, <1>2, <1>4, <2>1, <2>2, <2>3 DEF WriteAgent
  <2>6. request[s].seen = "RETIRED" => identity'[a] = "RETIRED"
    BY <2>5 DEF TransitionIdentity
  <2> QED
    BY <2>1, <2>2, <2>4, <2>6 DEF Undecides, At
<1>5. ASSUME NEW b \in Agents, Register(b) PROVE Undecides(a)
  BY <1>1, <1>2, <1>5 DEF Register
<1>6. ASSUME NEW b \in Agents, Contact(b) PROVE Undecides(a)
  BY <1>1, <1>2, <1>6 DEF Contact, Contacted
<1>7. CASE DeleteAgents
  BY <1>7 DEF DeleteAgents, Undecides
<1>8. CASE CountAll \/ DeleteDecisions \/ DeleteScores \/ DeleteTasks
  BY <1>3, <1>8 DEF CountAll, DeleteDecisions, DeleteScores, DeleteTasks, Others
<1>9. CASE \E s \in Sessions :
             \/ \E q \in AdminRequests : Authorise(s, q)
             \/ \E u \in Subjects, e \in Emails : FindBound(s, u, e)
             \/ Invite(s) \/ ReadMember(s) \/ WriteMember(s)
             \/ FindInvite(s) \/ AnswerNoRole(s) \/ Bind(s) \/ BindFails(s)
             \/ ReadAgent(s)
  BY <1>3, <1>9 DEF Authorise, FindBound, Invite, ReadMember, WriteMember, FindInvite,
                    AnswerNoRole, Bind, BindFails, ReadAgent, Admin
<1>10. CASE UNCHANGED vars
  BY <1>3, <1>10 DEF vars
<1> QED
  BY <1>4, <1>5, <1>6, <1>7, <1>8, <1>9, <1>10 DEF Next

\* No report of a producer ends a deactivation or a retirement.
THEOREM DecisionsStand == Spec => AdminDecisionStands
<1>1. IInv /\ [Next]_vars =>
        [\A a \in Agents :
           identity[a] \in {"DORMANT", "RETIRED"} /\ identity'[a] # identity[a] =>
             \/ reset.step = "TASKS"
             \/ \E s \in Sessions :
                  /\ At(s, IdentityKinds, "READ")
                  /\ request[s].agent = a
                  /\ identity[a] = "RETIRED" => request[s].seen # "RETIRED"]_vars
  BY IdentityStep DEF Undecides
<1> QED
  BY <1>1, Invariance, PTL DEF Spec, AdminDecisionStands

LEMMA CommitStep ==
  ASSUME IInv, [Next]_vars, reset.step = "TASKS", rows'.tasks = {}, rows' # rows
  PROVE  /\ rows.decisions = reset.counted.decisions + reset.late
         /\ rows'.scores <= reset.late
<1>1. /\ rows \in [tasks : SUBSET Agents, decisions : Nat, scores : Nat]
      /\ rows.decisions = reset.counted.decisions + reset.late
      /\ reset.cleared <= rows.scores /\ rows.scores <= reset.cleared + reset.late
      /\ reset.cleared \in Nat /\ reset.late \in Nat
  BY DEF IInv, ResetInv, NoReset
<1>2. ASSUME NEW a \in Agents, Register(a) \/ Contact(a) PROVE FALSE
  <2>1. a \in rows'.tasks
    BY <1>1, <1>2 DEF Register, Contact
  <2> QED
    BY <2>1
<1>3. CASE DeleteAgents
  <2>1. rows'.scores = rows.scores - reset.cleared
    BY <1>3 DEF DeleteAgents
  <2> QED
    BY <1>1, <2>1
<1>4. CASE CountAll \/ DeleteDecisions \/ DeleteScores \/ DeleteTasks
  BY <1>4 DEF CountAll, DeleteDecisions, DeleteScores, DeleteTasks
<1>5. CASE \E s \in Sessions :
             \/ \E q \in AdminRequests : Authorise(s, q)
             \/ \E u \in Subjects, e \in Emails : FindBound(s, u, e)
             \/ Invite(s) \/ ReadMember(s) \/ WriteMember(s)
             \/ FindInvite(s) \/ AnswerNoRole(s) \/ Bind(s) \/ BindFails(s)
             \/ ReadAgent(s) \/ WriteAgent(s)
  BY <1>5 DEF Authorise, FindBound, Invite, ReadMember, WriteMember, FindInvite,
              AnswerNoRole, Bind, BindFails, ReadAgent, WriteAgent, Admin
<1>6. CASE UNCHANGED vars
  BY <1>6 DEF vars
<1> QED
  BY <1>2, <1>3, <1>4, <1>5, <1>6 DEF Next

\* A reset that commits has deleted what it counted and what came late, and of the scores
\* it leaves only late ones.
THEOREM ResetsAreExact == Spec => ResetIsExactButForLateIngests
<1>1. IInv /\ [Next]_vars =>
        [reset.step = "TASKS" /\ rows'.tasks = {} /\ rows' # rows =>
           /\ rows.decisions = reset.counted.decisions + reset.late
           /\ rows'.scores <= reset.late]_vars
  BY CommitStep
<1> QED
  BY <1>1, Invariance, PTL DEF Spec, ResetIsExactButForLateIngests
=============================================================================
