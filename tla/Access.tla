-------------------------------- MODULE Access --------------------------------
(***************************************************************************)
(* Who may do what in an organisation, and what the admin pages change:    *)
(* memberships and roles, the identity of the agents, and the reset of the *)
(* organisation (apps/api/src/app.ts, packages/persistence/src/            *)
(* membership.ts and reset.ts, packages/contracts/src/rbac.ts,             *)
(* packages/core/src/identity.ts).                                         *)
(*                                                                         *)
(* A request is authorised in a transaction of its own, and then reads and *)
(* writes in another (READ COMMITTED, no row locked by a read): its write  *)
(* is the last statement before the commit, so write and commit are one    *)
(* step. The reads of one request between two writes are one step too,     *)
(* except a login's, whose race its comment speaks of.                     *)
(*                                                                         *)
(* Abstracted: names and labels of members and agents; of the evidence,    *)
(* the number of rows of each kind (a score row stands for the transitions *)
(* written with it); requests that are refused before they read anything.  *)
(***************************************************************************)
EXTENDS Integers, FiniteSets

CONSTANTS
  Sessions,      \* requests in flight at a time
  Subjects,      \* the people, as the identity provider names them
  Emails,        \* their addresses, normalised
  Agents,        \* agent keys
  StartMembers,  \* the memberships the requests start from
  MaxRequests    \* bound: the number of requests begun

Roles == {"OWNER", "APPROVER", "OPERATOR", "VIEWER"}
NoRole == "NO_ROLE"
Nobody == "NOBODY"

Permissions ==
  {"view", "approve_transition", "free_set_mode", "suspend_agent", "activate_deactivate",
   "manage_agents", "manage_keys", "manage_people", "configure_guardrails",
   "instance_settings"}
Granted ==
  [OWNER    |-> Permissions,
   APPROVER |-> {"view", "approve_transition", "free_set_mode", "suspend_agent",
                 "activate_deactivate"},
   OPERATOR |-> {"view", "activate_deactivate"},
   VIEWER   |-> {"view"}]

Can(role, permission) == role \in Roles /\ permission \in Granted[role]

MemberRows == [id : Nat, subject : Subjects \cup {Nobody}, role : Roles \cup {NoRole}]
NoMember == [id |-> 0, subject |-> Nobody, role |-> NoRole]
IdentityStates == {"DISCOVERED", "ACTIVE", "DORMANT", "RETIRED"}
NoAgent == "NO_AGENT"

ASSUME AccessAssumption ==
  /\ IsFiniteSet(Emails)
  /\ Nobody \notin Subjects
  /\ StartMembers \subseteq [Emails -> MemberRows]
  /\ \A m \in StartMembers : \E e \in Emails : m[e].role = "OWNER"
  /\ MaxRequests \in Nat

VARIABLES
  members,   \* of each email, the membership row
  nextId,    \* the id of the next membership row
  identity,  \* of each agent key, the stored identity state
  rows,      \* the rows of evidence: [tasks, decisions, scores]
  request,   \* the request of each session
  reset,     \* the reset in progress
  begun,     \* the number of requests begun
  unguarded  \* history: an owner went by a stale count, or by an invitation

vars == <<members, nextId, identity, rows, request, reset, begun, unguarded>>

------------------------------------------------------------------------------
(* Requests *)

PeopleKinds == {"INVITE", "SET_ROLE", "REMOVE"}
IdentityKinds == {"DEACTIVATE", "REACTIVATE", "RETIRE"}
AgentKinds == {"PROVISION"} \cup IdentityKinds

PermissionOf(kind) ==
  CASE kind \in PeopleKinds                   -> "manage_people"
    [] kind \in {"PROVISION", "RETIRE"}       -> "manage_agents"
    [] kind \in {"DEACTIVATE", "REACTIVATE"}  -> "activate_deactivate"

NoRequest == [kind |-> "NONE"]
NoEmail == "NO_EMAIL"
NoKey == "NO_KEY"
AdminRequests ==
  [kind : {"INVITE", "SET_ROLE"}, actor : Subjects, email : Emails, role : Roles,
   agent : {NoKey}]
  \cup [kind : {"REMOVE"}, actor : Subjects, email : Emails, role : {NoRole},
        agent : {NoKey}]
  \cup [kind : AgentKinds, actor : Subjects, email : {NoEmail}, role : {NoRole},
        agent : Agents]

Exists(e) == members[e] # NoMember
Owners(m) == {e \in Emails : m[e].role = "OWNER"}
RowsOf(subject) == {e \in Emails : Exists(e) /\ members[e].subject = subject}
RoleOf(subject) ==
  IF RowsOf(subject) = {} THEN NoRole
  ELSE members[CHOOSE e \in RowsOf(subject) : TRUE].role

Present == {a \in Agents : identity[a] # NoAgent}
At(s, kinds, step) == request[s].kind \in kinds /\ request[s].step = step

TypeOK ==
  /\ members \in [Emails -> MemberRows]
  /\ nextId \in Nat
  /\ identity \in [Agents -> IdentityStates \cup {NoAgent}]
  /\ rows \in [tasks : SUBSET Agents, decisions : Nat, scores : Nat]
  /\ DOMAIN request = Sessions
  /\ begun \in 0..MaxRequests
  /\ unguarded \in BOOLEAN

Init ==
  /\ members \in StartMembers
  /\ nextId = 1 + Cardinality(Emails)
  /\ identity = [a \in Agents |-> NoAgent]
  /\ rows = [tasks |-> {}, decisions |-> 0, scores |-> 0]
  /\ request = [s \in Sessions |-> NoRequest]
  /\ reset = [step |-> "IDLE"]
  /\ begun = 0
  /\ unguarded = FALSE

Begin ==
  /\ begun < MaxRequests
  /\ begun' = begun + 1

\* A member row has changed under the requests in flight: what they counted is stale, and
\* the role of those it concerns may be gone.
Overtaken(s, m) ==
  [x \in Sessions |->
    IF x = s \/ request[x] = NoRequest THEN NoRequest
    ELSE [request[x] EXCEPT
           !.stale = TRUE,
           !.demoted = @ \/ \E e \in Emails :
             members[e].subject = request[x].actor /\ m[e] # members[e]]]
Ended(s) == [request EXCEPT ![s] = NoRequest]

\* Mutant: any role will do.
AuthorisedAsMember(q) == RoleOf(q.actor) # NoRole

Authorised(q) == Can(RoleOf(q.actor), PermissionOf(q.kind))

\* requireInternalPermission: the role is looked up by the subject of the caller. Every
\* admin route begins with it.
Authorise(s, q) ==
  /\ request[s] = NoRequest
  /\ Authorised(q)
  /\ Begin
  /\ request' = [request EXCEPT ![s] =
       [kind |-> q.kind, actor |-> q.actor, email |-> q.email, role |-> q.role,
        agent |-> q.agent, step |-> "AUTHORISED", seen |-> NoAgent,
        stale |-> FALSE, demoted |-> FALSE]]
  /\ UNCHANGED <<members, nextId, identity, rows, reset, unguarded>>

------------------------------------------------------------------------------
(* People *)

Admin(s) == UNCHANGED <<identity, rows, reset, begun>>

\* POST /org/members: one upsert, which also updates the role of a member there is.
Invite(s) ==
  LET q == request[s]
      m == IF Exists(q.email) THEN [members EXCEPT ![q.email].role = q.role]
           ELSE [members EXCEPT ![q.email] =
                  [id |-> nextId, subject |-> Nobody, role |-> q.role]]
  IN /\ At(s, {"INVITE"}, "AUTHORISED")
     /\ members' = m
     /\ nextId' = nextId + 1
     /\ request' = Overtaken(s, m)
     /\ unguarded' = (unguarded \/ Owners(m) # Owners(members) \cup Owners(m))
     /\ Admin(s)

Lowers(q) == q.kind = "REMOVE" \/ q.role # "OWNER"

\* Mutant: the guard of the last owner counts one too few.
PassesOffByOne(q, owners) ==
  q.email \in owners /\ Lowers(q) => Cardinality(owners) > 0

\* The last-owner guard of PATCH and DELETE.
Passes(q, owners) == q.email \in owners /\ Lowers(q) => Cardinality(owners) > 1

\* PATCH and DELETE /org/members/:email find the row and count the owners, and stop at a
\* row that is not there (404) or is the last owner's (409).
ReadMember(s) ==
  LET q == request[s]
  IN /\ At(s, {"SET_ROLE", "REMOVE"}, "AUTHORISED")
     /\ request' = IF Exists(q.email) /\ Passes(q, Owners(members))
                   THEN [request EXCEPT ![s].step = "READ", ![s].stale = FALSE]
                   ELSE Ended(s)
     /\ UNCHANGED <<members, nextId, unguarded>>
     /\ Admin(s)

\* The write goes by the email; a row that is gone by now fails the request (500).
WriteMember(s) ==
  LET q == request[s]
      m == IF q.kind = "REMOVE" THEN [members EXCEPT ![q.email] = NoMember]
           ELSE [members EXCEPT ![q.email].role = q.role]
  IN /\ At(s, {"SET_ROLE", "REMOVE"}, "READ")
     /\ IF Exists(q.email)
        THEN /\ members' = m
             /\ request' = Overtaken(s, m)
             /\ unguarded' = (unguarded \/ (q.stale /\ Lowers(q)))
        ELSE /\ request' = Ended(s)
             /\ UNCHANGED <<members, unguarded>>
     /\ UNCHANGED nextId
     /\ Admin(s)

\* GET /me (resolveOrBind) of a subject with no row of its own and a verified email.
\* With a row of its own the answer is its role, with no verified email it is null.
FindBound(s, subject, e) ==
  /\ request[s] = NoRequest
  /\ RoleOf(subject) = NoRole
  /\ Begin
  /\ request' = [request EXCEPT ![s] =
       [kind |-> "ME", actor |-> subject, email |-> e, step |-> "UNBOUND", seen |-> 0,
        stale |-> FALSE, demoted |-> FALSE]]
  /\ UNCHANGED <<members, nextId, identity, rows, reset, unguarded>>

Unclaimed(e) == Exists(e) /\ members[e].subject = Nobody

FindInvite(s) ==
  LET q == request[s]
  IN /\ At(s, {"ME"}, "UNBOUND")
     /\ Unclaimed(q.email)
     /\ request' = [request EXCEPT ![s].step = "INVITED", ![s].seen = members[q.email].id]
     /\ UNCHANGED <<members, nextId, unguarded>>
     /\ Admin(s)

\* There is no invitation to claim: the caller is told it has no role.
AnswerNoRole(s) ==
  /\ At(s, {"ME"}, "UNBOUND")
  /\ ~Unclaimed(request[s].email)
  /\ request' = Ended(s)
  /\ UNCHANGED <<members, nextId, unguarded>>
  /\ Admin(s)

Found(q) == members[q.email].id = q.seen

\* The invitation is bound by its id, whoever may have claimed it meanwhile.
Bind(s) ==
  LET q == request[s]
      m == [members EXCEPT ![q.email].subject = q.actor]
  IN /\ At(s, {"ME"}, "INVITED")
     /\ Found(q)
     /\ RowsOf(q.actor) \subseteq {q.email}
     /\ members' = m
     /\ request' = Overtaken(s, m)
     /\ UNCHANGED <<nextId, unguarded>>
     /\ Admin(s)

\* The binding fails: the row is gone, or the subject has another one, and the failed
\* statement has aborted the transaction in which the code would read it again (500).
BindFails(s) ==
  LET q == request[s]
  IN /\ At(s, {"ME"}, "INVITED")
     /\ ~(Found(q) /\ RowsOf(q.actor) \subseteq {q.email})
     /\ request' = Ended(s)
     /\ UNCHANGED <<members, nextId, unguarded>>
     /\ Admin(s)

------------------------------------------------------------------------------
(* Identity of the agents *)

\* Mutant: RETIRED is not terminal.
TransitionIdentityFromRetired(current, kind) ==
  CASE kind = "RETIRE" -> "RETIRED"
    [] kind = "REACTIVATE" -> "ACTIVE"
    [] kind = "DEACTIVATE" -> IF current = "ACTIVE" THEN "DORMANT" ELSE current

TransitionIdentity(current, kind) ==
  CASE current = "RETIRED" \/ kind = "RETIRE" -> "RETIRED"
    [] current # "RETIRED" /\ kind = "REACTIVATE" -> "ACTIVE"
    [] current # "RETIRED" /\ kind = "DEACTIVATE" ->
         IF current = "ACTIVE" THEN "DORMANT" ELSE current

People == UNCHANGED <<members, nextId, unguarded>>

\* The agent is read, and the request stops at one that is not there (404), at one that is
\* there to be provisioned (409), and at a transition that changes nothing.
ReadAgent(s) ==
  LET q == request[s]
      current == identity[q.agent]
      goesOn == IF q.kind = "PROVISION" THEN current = NoAgent
                ELSE current # NoAgent /\ TransitionIdentity(current, q.kind) # current
  IN /\ At(s, AgentKinds, "AUTHORISED")
     /\ request' = IF goesOn
                   THEN [request EXCEPT ![s].step = "READ", ![s].seen = current]
                   ELSE Ended(s)
     /\ UNCHANGED <<identity, rows, reset, begun>>
     /\ People

\* The write of the state computed from what was read; provisioning leaves a row that has
\* come to be alone, and a row that is gone fails the request (500).
WriteAgent(s) ==
  LET q == request[s]
  IN /\ At(s, AgentKinds, "READ")
     /\ identity' =
          [identity EXCEPT ![q.agent] =
             IF q.kind = "PROVISION" THEN IF @ = NoAgent THEN "DISCOVERED" ELSE @
             ELSE IF @ = NoAgent THEN NoAgent ELSE TransitionIdentity(q.seen, q.kind)]
     /\ request' = Ended(s)
     /\ UNCHANGED <<rows, reset, begun>>
     /\ People

\* ensure and markActiveOnFirstContact: activity wakes only an agent just discovered.
Contacted(current) ==
  IF current \in {NoAgent, "DISCOVERED"} THEN "ACTIVE" ELSE current

\* A producer registers an agent, with a task.
Register(a) ==
  /\ Begin
  /\ ~(reset.step = "TASKS" /\ a \in rows.tasks)
  /\ identity' = [identity EXCEPT ![a] = IF @ = NoAgent THEN "DISCOVERED" ELSE @]
  /\ rows' = [rows EXCEPT !.tasks = @ \cup {a}]
  /\ UNCHANGED <<request, reset>>
  /\ People

\* A producer's decision is ingested, with its score. It waits for a reset that has
\* deleted its task and not committed.
Contact(a) ==
  /\ Begin
  /\ ~(reset.step = "TASKS" /\ a \in rows.tasks)
  /\ identity' = [identity EXCEPT ![a] = Contacted(@)]
  /\ rows' = [tasks |-> rows.tasks \cup {a}, decisions |-> rows.decisions + 1,
              scores |-> rows.scores + 1]
  /\ reset' = IF reset.step \in {"IDLE", "COUNTED"} THEN reset
              ELSE [reset EXCEPT !.late = @ + 1]
  /\ UNCHANGED request
  /\ People

------------------------------------------------------------------------------
(* The reset of the organisation, from the command line *)

Others == UNCHANGED <<members, nextId, identity, request, unguarded>>
NoReset == [step |-> "IDLE"]
Counts == [agents |-> Cardinality(Present), tasks |-> Cardinality(rows.tasks),
           decisions |-> rows.decisions, scores |-> rows.scores]

\* The rows are counted before the transaction begins.
CountAll ==
  /\ reset.step = "IDLE"
  /\ Begin
  /\ reset' = [step |-> "COUNTED", counted |-> Counts, cleared |-> 0, late |-> 0]
  /\ UNCHANGED rows
  /\ Others

\* Mutant: the tripwire is not checked.
TripwireOff(count, expected) == FALSE

Tripwire(count, expected) == count # expected

\* One table's rows are deleted, unless the number is not the one counted, which rolls the
\* reset back. "late" counts the ingests committed after the decisions were deleted.
DeleteDecisions ==
  /\ reset.step = "COUNTED"
  /\ reset' = IF Tripwire(rows.decisions, reset.counted.decisions) THEN NoReset
              ELSE [reset EXCEPT !.step = "DECISIONS"]
  /\ UNCHANGED <<rows, begun>>
  /\ Others

DeleteScores ==
  /\ reset.step = "DECISIONS"
  /\ reset' = IF Tripwire(rows.scores, reset.counted.scores) THEN NoReset
              ELSE [reset EXCEPT !.step = "SCORES", !.cleared = rows.scores]
  /\ UNCHANGED <<rows, begun>>
  /\ Others

DeleteTasks ==
  /\ reset.step = "SCORES"
  /\ reset' = IF Tripwire(Cardinality(rows.tasks), reset.counted.tasks) THEN NoReset
              ELSE [reset EXCEPT !.step = "TASKS"]
  /\ UNCHANGED <<rows, begun>>
  /\ Others

\* The agents go last, and the reset commits: the foreign keys take with a task or an agent
\* every decision of it, counted or not; a score refers to neither.
DeleteAgents ==
  /\ reset.step = "TASKS"
  /\ reset' = NoReset
  /\ IF Tripwire(Cardinality(Present), reset.counted.agents)
     THEN UNCHANGED <<rows, identity>>
     ELSE /\ rows' = [tasks |-> {}, decisions |-> 0, scores |-> rows.scores - reset.cleared]
          /\ identity' = [a \in Agents |-> NoAgent]
  /\ UNCHANGED <<request, begun>>
  /\ People

------------------------------------------------------------------------------
Next ==
  \/ \E s \in Sessions :
       \/ \E q \in AdminRequests : Authorise(s, q)
       \/ \E u \in Subjects, e \in Emails : FindBound(s, u, e)
       \/ Invite(s) \/ ReadMember(s) \/ WriteMember(s)
       \/ FindInvite(s) \/ AnswerNoRole(s) \/ Bind(s) \/ BindFails(s)
       \/ ReadAgent(s) \/ WriteAgent(s)
  \/ \E a \in Agents : Register(a) \/ Contact(a)
  \/ CountAll \/ DeleteDecisions \/ DeleteScores \/ DeleteTasks \/ DeleteAgents

Spec == Init /\ [][Next]_vars

------------------------------------------------------------------------------
(* Properties *)

\* The last owner is removed or demoted only past the guard: by a request that counted the
\* owners before another one changed the members, or by an invitation of an owner's
\* address (app.ts, the last-owner guards).
OwnersGoOnlyUnguarded == Owners(members) = {} => unguarded

\* Whoever acts with a permission has it, or had it when the request was authorised and
\* lost it to a change of its membership since (app.ts, requireInternalPermission).
AuthorityIsRecent ==
  \A s \in Sessions :
    request[s].kind \in PeopleKinds \cup AgentKinds =>
      \/ Can(RoleOf(request[s].actor), PermissionOf(request[s].kind))
      \/ request[s].demoted

\* What an administrator has deactivated or retired stays so whatever the producers send:
\* it ends by a reset, by a request on that agent that had read it before the retirement,
\* or, if it was only deactivated, by a later one (repositories.ts, first contact).
AdminDecisionStands ==
  [][\A a \in Agents :
       identity[a] \in {"DORMANT", "RETIRED"} /\ identity'[a] # identity[a] =>
         \/ reset.step = "TASKS"
         \/ \E s \in Sessions :
              /\ At(s, IdentityKinds, "READ")
              /\ request[s].agent = a
              /\ identity[a] = "RETIRED" => request[s].seen # "RETIRED"]_vars

\* A reset that commits has removed the decisions it counted, and leaves no score, but for
\* those of ingests that committed while it ran (reset.ts, the tripwire).
ResetIsExactButForLateIngests ==
  [][reset.step = "TASKS" /\ rows'.tasks = {} /\ rows' # rows =>
       /\ rows.decisions = reset.counted.decisions + reset.late
       /\ rows'.scores <= reset.late]_vars

\* An organisation keeps an owner: "never demote the final OWNER" (app.ts:593). The code
\* does not keep this: inviting the owner's own address with a lower role updates the role
\* of the row there is, and no guard looks (membership.ts:82).
AnOwnerRemains == Owners(members) # {}

\* A login that finds no role is of someone who has none: "Idempotent under a concurrent
\* first-login race" (membership.ts:36). The code does not keep this: of two first logins
\* of one person the second finds the invitation claimed, by itself (membership.ts:52).
FirstLoginIsIdempotent ==
  [][\A s \in Sessions : AnswerNoRole(s) => RoleOf(request[s].actor) = NoRole]_vars
===============================================================================
