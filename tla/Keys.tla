--------------------------------- MODULE Keys ---------------------------------
(***************************************************************************)
(* The API keys of an organisation: minting, rotation and revocation, and  *)
(* the calls that producers make under them (apps/api/src/app.ts and       *)
(* auth.ts, packages/persistence/src/repositories.ts and auth.ts, the      *)
(* resolver functions of the migrations).                                  *)
(*                                                                         *)
(* A key is its prefix, numbered in the order of the requests that may     *)
(* mint one; the secret and its hash always belong to it. A request is one *)
(* transaction. A revoking UPDATE finds the active rows committed when it  *)
(* begins, waits for the rows that another revokes, and then skips them:   *)
(* what it found and its commit are two steps.                             *)
(***************************************************************************)
EXTENDS Integers, FiniteSets

CONSTANTS
  Sessions,    \* requests in flight at a time
  Agents,      \* agent keys
  MaxRequests, \* bound: the number of requests begun
  MaxCalls     \* bound: the producers' calls in flight

ASSUME KeysAssumption == MaxRequests \in Nat /\ MaxCalls \in Nat

Prefixes == 1..(MaxRequests + 1)
NoKey == 0
NoAgent == "NO_AGENT"
Kinds == {"SDK", "GATEWAY"}
KeyRows ==
  [state : {"NONE", "ACTIVE", "REVOKED"}, kind : Kinds, agent : Agents \cup {NoAgent}]

VARIABLES
  keys,      \* the key rows
  shown,     \* the keys whose plaintext somebody was given
  tx,        \* the request of each session
  calls,     \* the calls in flight of producers: [key, agent, late]
  fleet,     \* the agents with a task
  begun,     \* the number of requests begun
  deleted    \* history: whether a key was revoked by name

keyVars == <<keys, shown, tx, calls, fleet, begun, deleted>>

NoTx == [kind |-> "NONE", agent |-> NoAgent, target |-> NoKey]
Asked ==
  [kind : {"MINT", "ROTATE_ALL"}, agent : {NoAgent}, target : {NoKey}]
  \cup [kind : {"MINT_GATEWAY"}, agent : Agents, target : {NoKey}]
  \cup [kind : {"ROTATE", "REVOKE"}, agent : {NoAgent}, target : Prefixes]

Active == {k \in Prefixes : keys[k].state = "ACTIVE"}

KeysTypeOK ==
  /\ keys \in [Prefixes -> KeyRows]
  /\ shown \subseteq Prefixes
  /\ DOMAIN tx = Sessions
  /\ \A c \in calls : c.key \in Prefixes /\ c.agent \in Agents /\ c.late \in BOOLEAN
  /\ fleet \subseteq Agents
  /\ begun \in 0..MaxRequests
  /\ deleted \in BOOLEAN

\* The organisation is provisioned with one machine key.
KeysInit ==
  /\ keys = [k \in Prefixes |->
       [state |-> IF k = 1 THEN "ACTIVE" ELSE "NONE", kind |-> "SDK", agent |-> NoAgent]]
  /\ shown = {1}
  /\ tx = [s \in Sessions |-> NoTx]
  /\ calls = {}
  /\ fleet = {}
  /\ begun = 0
  /\ deleted = FALSE

------------------------------------------------------------------------------
(* Requests *)

\* An owner calls a route. "before" notes the keys that are active now.
Call(s, q) ==
  /\ tx[s] = NoTx
  /\ begun < MaxRequests
  /\ q.target <= begun + 1
  /\ begun' = begun + 1
  /\ tx' = [tx EXCEPT ![s] =
       [kind |-> q.kind, agent |-> q.agent, target |-> q.target, key |-> begun + 2,
        step |-> "CALLED", found |-> {}, before |-> Active]]
  /\ UNCHANGED <<keys, shown, calls, fleet, deleted>>

Mints(q) == q.kind # "REVOKE"
Rotates(q) == q.kind \in {"ROTATE", "ROTATE_ALL"}

\* Mutant: a rotation spares the gateways' keys.
RevokedBySdkOnly(q) ==
  IF q.kind = "ROTATE_ALL" THEN {k \in Active : keys[k].kind = "SDK"}
  ELSE Active \cap {q.target}

\* revokeOthers and revoke: the rows the UPDATE finds. The key that the transaction mints
\* is excepted by its prefix, or not the target.
RevokedBy(q) == IF q.kind = "ROTATE_ALL" THEN Active ELSE Active \cap {q.target}

Find(s) ==
  /\ tx[s].kind \in {"ROTATE", "ROTATE_ALL", "REVOKE"}
  /\ tx[s].step = "CALLED"
  /\ tx' = [tx EXCEPT ![s].step = "FOUND", ![s].found = RevokedBy(tx[s])]
  /\ UNCHANGED <<keys, shown, calls, fleet, begun, deleted>>

\* Mutant: "rotate all" does not except the key it has minted.
MintedAndRevoked(q) ==
  [state |-> IF q.kind = "ROTATE_ALL" THEN "REVOKED" ELSE "ACTIVE",
   kind |-> IF q.kind = "MINT_GATEWAY" THEN "GATEWAY" ELSE "SDK", agent |-> q.agent]

Minted(q) ==
  [state |-> "ACTIVE", kind |-> IF q.kind = "MINT_GATEWAY" THEN "GATEWAY" ELSE "SDK",
   agent |-> q.agent]

\* The plaintext is answered once; a rotation that revoked nothing answers 404 instead.
Answered(q, revoked) == Mints(q) /\ (q.kind = "ROTATE" => revoked # {})

\* The request commits: its key is active, the keys it found and nobody else revoked are
\* revoked, and the caller is given the plaintext, unless the answer is lost on its way.
Commit(s, delivered) ==
  LET q == tx[s]
      revoked == q.found \cap Active
      heard == delivered /\ Answered(q, revoked)
  IN /\ q # NoTx
     /\ q.step = IF q.kind \in {"MINT", "MINT_GATEWAY"} THEN "CALLED" ELSE "FOUND"
     /\ keys' = [k \in Prefixes |->
                   CASE Mints(q) /\ k = q.key -> Minted(q)
                     [] k \in revoked -> [keys[k] EXCEPT !.state = "REVOKED"]
                     [] OTHER -> keys[k]]
     /\ shown' = IF heard THEN shown \cup {q.key} ELSE shown
     /\ deleted' = (deleted \/ q.kind = "REVOKE")
     /\ calls' = {[c EXCEPT !.late = @ \/ c.key \in revoked] : c \in calls}
     /\ tx' = [tx EXCEPT ![s] = NoTx]
     /\ UNCHANGED <<fleet, begun>>

------------------------------------------------------------------------------
(* Calls of producers *)

\* Mutant: the resolver forgets the keys that were revoked.
ResolvesRevoked(k, kind) == keys[k].state # "NONE" /\ keys[k].kind = kind

\* auth_resolve_org and auth_resolve_gateway: each resolves active keys of its own kind.
Resolves(k, kind) == keys[k].state = "ACTIVE" /\ keys[k].kind = kind

\* A call is authenticated, in a transaction of its own, and goes on without its key: an
\* SDK key speaks for any agent, a gateway key for the one it is bound to.
Admit(k, a) ==
  /\ Cardinality(calls) < MaxCalls
  /\ k \in shown
  /\ \/ Resolves(k, "SDK")
     \/ Resolves(k, "GATEWAY") /\ a = keys[k].agent
  /\ calls' = calls \cup {[key |-> k, agent |-> a, late |-> FALSE]}
  /\ UNCHANGED <<keys, shown, tx, fleet, begun, deleted>>

\* What the call reports is ingested, and its agent has a task.
Land(c) ==
  /\ calls' = calls \ {c}
  /\ fleet' = fleet \cup {c.agent}
  /\ UNCHANGED <<keys, shown, tx, begun, deleted>>

------------------------------------------------------------------------------
(* Properties *)

\* An organisation whose keys are only ever rotated keeps a machine key that works, however
\* the rotations overlap (app.ts, "new valid first").
RotationNeverLocksOut == deleted \/ \E k \in Active : keys[k].kind = "SDK"

\* Rotation is exact. When "rotate all" has answered, every key that was active when it was
\* called is dead, the gateways' too; what survives was minted while it ran. The rotation of
\* one key that is no longer active leaves a new key behind, but one that nobody holds: no
\* rotation adds to the keys in use (app.ts, POST /org/api-key/rotate and
\* /admin/keys/:prefix/rotate).
RotationIsExact ==
  [][\A s \in Sessions : tx[s] # NoTx /\ tx'[s] = NoTx =>
       /\ tx[s].kind = "ROTATE_ALL" =>
            \A k \in tx[s].before : keys'[k].state = "REVOKED"
       /\ tx[s].kind = "ROTATE" /\ (\A k \in Active : keys'[k].state = "ACTIVE") =>
            tx[s].key \notin shown']_keyVars

\* A call goes on under a key that is dead only if the key died after it was admitted
\* (persistence/src/auth.ts: the key is resolved once, before the tenant's transaction).
DeadKeysOnlyFinish ==
  \A c \in calls : keys[c.key].state # "ACTIVE" => c.late
===============================================================================
