---------------------------- MODULE OnboardingProofs ---------------------------
(***************************************************************************)
(* The theorems of Onboarding, for any number of overlapping requests,     *)
(* agents and calls.                                                       *)
(*                                                                         *)
(* The argument rests on one fact about keys in flight: the key that a     *)
(* request will mint is in nobody's way until the request commits (Fresh). *)
(* What a rotation found when it looked, and what it set out to revoke,    *)
(* can then be compared at its commit (Staged), since a key is minted once *)
(* and dies once.                                                          *)
(***************************************************************************)
EXTENDS Onboarding, TLAPS

InFlight(s) == tx[s] # NoTx
MintKinds == {"MINT", "MINT_GATEWAY"}
FindKinds == {"ROTATE", "ROTATE_ALL", "REVOKE"}

TxRows ==
  [kind : MintKinds \cup FindKinds, agent : Agents \cup {NoAgent}, target : Prefixes \cup {NoKey},
   key : Nat, step : {"CALLED", "FOUND"}, found : SUBSET Prefixes,
   before : SUBSET Prefixes]
Asks ==
  [kind : MintKinds \cup FindKinds, agent : Agents \cup {NoAgent}, target : Prefixes \cup {NoKey}]
CallRows == [key : Prefixes, agent : Agents, late : BOOLEAN]

Typed ==
  /\ keys \in [Prefixes -> KeyRows]
  /\ tx \in [Sessions -> TxRows \cup {NoTx}]
  /\ shown \subseteq Prefixes
  /\ calls \subseteq CallRows
  /\ fleet \subseteq Agents
  /\ begun \in 0..MaxRequests
  /\ deleted \in BOOLEAN

\* The key of a request does not exist before the request commits, nobody has
\* seen it, and no other request has it. Keys of requests to come do not exist.
Fresh ==
  /\ \A s \in Sessions : InFlight(s) =>
       /\ tx[s].key \in 2..(begun + 1)
       /\ keys[tx[s].key].state = "NONE"
  /\ \A s, o \in Sessions : s # o /\ InFlight(s) /\ InFlight(o) => tx[s].key # tx[o].key
  /\ \A k \in Prefixes : k > begun + 1 => keys[k].state = "NONE"
  /\ \A k \in shown : keys[k].state # "NONE"

\* What a request has found by the statement it executes next.
Staged(s) ==
  InFlight(s) =>
    /\ \A k \in tx[s].before \cup tx[s].found : keys[k].state # "NONE"
    /\ tx[s].step = "CALLED" => tx[s].found = {}
    /\ tx[s].kind \in MintKinds => tx[s].found = {}
    /\ tx[s].kind = "ROTATE_ALL" /\ tx[s].step = "FOUND" =>
         tx[s].before \cap Active \subseteq tx[s].found

KeysInv ==
  /\ Typed
  /\ Fresh
  /\ \A s \in Sessions : Staged(s)
  /\ RotationNeverLocksOut
  /\ DeadKeysOnlyFinish

\* What the wizard holds.
WizardTyped ==
  /\ wizard = [step |-> wizard.step, agent |-> wizard.agent, tier |-> wizard.tier,
               gwKey |-> wizard.gwKey, sdkKey |-> wizard.sdkKey, found |-> wizard.found,
               minting |-> wizard.minting]
  /\ wizard.agent \in Agents \cup {NoAgent}
KeyOfKind(k, kind) == k \in Prefixes /\ keys[k].state # "NONE" /\ keys[k].kind = kind
WizardInv ==
  /\ WizardTyped
  /\ wizard.minting \in Sessions =>
       InFlight(wizard.minting) /\ tx[wizard.minting].kind \in MintKinds
  /\ wizard.gwKey # NoKey => KeyOfKind(wizard.gwKey, "GATEWAY")
  /\ wizard.sdkKey # NoKey => KeyOfKind(wizard.sdkKey, "SDK")
  /\ LiveIsOfTheFleet

------------------------------------------------------------------------------
(* The requests for keys *)

LEMMA PrefixesAreNat ==
  /\ MaxRequests \in Nat /\ 1 \in Prefixes /\ NoKey \notin Prefixes
  /\ \A k \in Prefixes : k \in Nat /\ k >= 1 /\ k <= MaxRequests + 1
  BY KeysAssumption DEF Prefixes, NoKey

LEMMA TxIsTyped ==
  ASSUME Typed, NEW s \in Sessions, InFlight(s)
  PROVE  tx[s] \in TxRows
  BY DEF Typed, InFlight

LEMMA InitKeys == KeysInit => KeysInv
<1> SUFFICES ASSUME KeysInit PROVE KeysInv
  OBVIOUS
<1>1. Typed
  <2>1. keys \in [Prefixes -> KeyRows]
    BY DEF KeysInit, KeyRows, Kinds
  <2>2. tx \in [Sessions -> TxRows \cup {NoTx}]
    BY DEF KeysInit
  <2>3. shown \subseteq Prefixes /\ calls \subseteq CallRows /\ fleet \subseteq Agents
    BY PrefixesAreNat DEF KeysInit
  <2>4. begun \in 0..MaxRequests
    BY PrefixesAreNat DEF KeysInit
  <2>5. deleted \in BOOLEAN
    BY DEF KeysInit
  <2> QED
    BY <2>1, <2>2, <2>3, <2>4, <2>5 DEF Typed
<1>2. \A s \in Sessions : ~InFlight(s)
  BY DEF KeysInit, InFlight
<1>3. Fresh
  BY <1>2, PrefixesAreNat DEF KeysInit, Fresh
<1>4. RotationNeverLocksOut
  <2>1. 1 \in Active /\ keys[1].kind = "SDK"
    BY PrefixesAreNat DEF KeysInit, Active
  <2> QED
    BY <2>1 DEF RotationNeverLocksOut
<1>5. DeadKeysOnlyFinish
  BY DEF KeysInit, DeadKeysOnlyFinish
<1> QED
  BY <1>1, <1>2, <1>3, <1>4, <1>5 DEF KeysInv, Staged

LEMMA CallKeeps ==
  ASSUME KeysInv, NEW s \in Sessions, NEW q \in Asks, Call(s, q)
  PROVE  KeysInv'
<1> DEFINE row == [kind |-> q.kind, agent |-> q.agent, target |-> q.target, key |-> begun + 2,
                   step |-> "CALLED", found |-> {}, before |-> Active]
<1>1. /\ tx' = [tx EXCEPT ![s] = row] /\ begun' = begun + 1 /\ begun < MaxRequests
      /\ UNCHANGED <<keys, shown, calls, fleet, deleted>> /\ ~InFlight(s)
  BY DEF Call, InFlight
<1>2. row \in TxRows
  <2>1. q.kind \in MintKinds \cup FindKinds /\ q.agent \in Agents \cup {NoAgent}
        /\ q.target \in Prefixes \cup {NoKey}
    BY DEF Asks
  <2>2. Active \subseteq Prefixes /\ begun + 2 \in Nat
    BY DEF Active, KeysInv, Typed
  <2> QED
    BY <2>1, <2>2 DEF TxRows
<1>3. Typed'
  BY <1>1, <1>2, PrefixesAreNat DEF KeysInv, Typed
<1>4. /\ tx'[s] = row /\ \A o \in Sessions \ {s} : tx'[o] = tx[o]
      /\ row.key = begun + 2 /\ row.step = "CALLED" /\ row.found = {} /\ row.before = Active
  BY <1>1 DEF KeysInv, Typed
<1>5. begun \in Nat /\ begun + 2 \in Prefixes
  BY <1>1, PrefixesAreNat DEF KeysInv, Typed, Prefixes
<1>6. Fresh'
  <2>1. keys[begun + 2].state = "NONE"
    BY <1>5 DEF KeysInv, Fresh
  <2>2. \A o \in Sessions \ {s} : InFlight(o) => tx[o].key \in 2..(begun + 1)
    BY DEF KeysInv, Fresh
  <2>3. \A o \in Sessions : InFlight(o)' =>
          /\ tx'[o].key \in 2..(begun' + 1)
          /\ keys'[tx'[o].key].state = "NONE"
    BY <1>1, <1>4, <1>5, <2>1, <2>2 DEF KeysInv, Fresh, InFlight
  <2>4. \A o, p \in Sessions : o # p /\ InFlight(o)' /\ InFlight(p)' =>
          tx'[o].key # tx'[p].key
    BY <1>4, <1>5, <2>2 DEF KeysInv, Fresh, InFlight
  <2>5. \A k \in Prefixes : k > begun' + 1 => keys'[k].state = "NONE"
    BY <1>1, <1>5, PrefixesAreNat DEF KeysInv, Fresh
  <2>6. \A k \in shown' : keys'[k].state # "NONE"
    BY <1>1 DEF KeysInv, Fresh
  <2> QED
    BY <2>3, <2>4, <2>5, <2>6 DEF Fresh
<1>7. \A o \in Sessions : Staged(o)'
  BY <1>1, <1>4 DEF KeysInv, Staged, InFlight, Active
<1>8. RotationNeverLocksOut' /\ DeadKeysOnlyFinish'
  BY <1>1 DEF KeysInv, RotationNeverLocksOut, DeadKeysOnlyFinish, Active
<1> QED
  BY <1>3, <1>6, <1>7, <1>8 DEF KeysInv

LEMMA FindKeeps ==
  ASSUME KeysInv, NEW s \in Sessions, Find(s)
  PROVE  KeysInv'
<1>1. /\ tx' = [tx EXCEPT ![s].step = "FOUND", ![s].found = RevokedBy(tx[s])]
      /\ UNCHANGED <<keys, shown, calls, fleet, begun, deleted>>
      /\ tx[s].kind \in FindKinds
  BY DEF Find, FindKinds
<1>2. tx[s] # NoTx /\ tx[s] \in TxRows
  BY <1>1 DEF FindKinds, NoTx, KeysInv, Typed
<1>3. RevokedBy(tx[s]) \subseteq Active /\ Active \subseteq Prefixes
      /\ (tx[s].kind = "ROTATE_ALL" => RevokedBy(tx[s]) = Active)
  BY DEF RevokedBy, Active
<1>4. /\ \A o \in Sessions \ {s} : tx'[o] = tx[o]
      /\ tx'[s] = [tx[s] EXCEPT !.step = "FOUND", !.found = RevokedBy(tx[s])]
      /\ tx'[s].key = tx[s].key /\ tx'[s].kind = tx[s].kind /\ tx'[s].before = tx[s].before
      /\ tx'[s].step = "FOUND" /\ tx'[s].found = RevokedBy(tx[s])
  BY <1>1, <1>2 DEF KeysInv, Typed, TxRows
<1>5. tx'[s] \in TxRows /\ tx'[s] # NoTx
  <2>1. tx'[s] \in TxRows
    BY <1>2, <1>3, <1>4 DEF TxRows
  <2> QED
    <3>1. tx'[s].kind # "NONE"
      BY <1>1, <1>4 DEF FindKinds
    <3>2. NoTx.kind = "NONE"
      BY DEF NoTx
    <3> QED
      BY <2>1, <3>1, <3>2
<1>6. Typed'
  <2>1. tx' \in [Sessions -> TxRows \cup {NoTx}]
    <3>1. DOMAIN tx' = Sessions /\ \A o \in Sessions : tx'[o] \in TxRows \cup {NoTx}
      BY <1>1, <1>4, <1>5 DEF KeysInv, Typed
    <3>2. tx' = [o \in Sessions |-> tx'[o]]
      BY <1>1 DEF KeysInv, Typed
    <3> QED
      BY <3>1, <3>2
  <2> QED
    BY <1>1, <2>1 DEF KeysInv, Typed
<1>7. Fresh'
  <2>1. \A o \in Sessions : (InFlight(o)' => InFlight(o)) /\ tx'[o].key = tx[o].key
    BY <1>2, <1>4 DEF InFlight
  <2> QED
    BY <1>1, <2>1 DEF KeysInv, Fresh
<1>8. \A o \in Sessions : Staged(o)'
  <2>1. Staged(s)'
    <3>1. \A k \in tx[s].before : keys[k].state # "NONE"
      BY <1>2 DEF KeysInv, Staged, InFlight
    <3>2. \A k \in RevokedBy(tx[s]) : keys[k].state # "NONE"
      BY <1>3 DEF Active
    <3>3. tx[s].kind \notin MintKinds
      BY <1>1 DEF FindKinds, MintKinds
    <3>4. Active' = Active
      BY <1>1 DEF Active
    <3> QED
      BY <1>1, <1>3, <1>4, <3>1, <3>2, <3>3, <3>4 DEF Staged
  <2>2. \A o \in Sessions \ {s} : Staged(o)'
    <3>1. Active' = Active
      BY <1>1 DEF Active
    <3>2. \A o \in Sessions \ {s} : Staged(o) /\ tx'[o] = tx[o]
      BY <1>4 DEF KeysInv
    <3> QED
      BY <1>1, <3>1, <3>2 DEF Staged, InFlight
  <2> QED
    BY <2>1, <2>2
<1>9. RotationNeverLocksOut' /\ DeadKeysOnlyFinish'
  BY <1>1 DEF KeysInv, RotationNeverLocksOut, DeadKeysOnlyFinish, Active
<1> QED
  BY <1>6, <1>7, <1>8, <1>9 DEF KeysInv

\* The keys that the commit of a request revokes.
Revoked(s) == tx[s].found \cap Active

\* What a commit does to the rows: it makes one that was not there, and takes the active
\* ones it found; nothing else changes, and no key comes back.
LEMMA CommitShape ==
  ASSUME KeysInv, NEW s \in Sessions, NEW delivered \in BOOLEAN, Commit(s, delivered)
  PROVE  /\ InFlight(s) /\ tx[s] \in TxRows /\ tx[s].key \in Prefixes
         /\ keys[tx[s].key].state = "NONE" /\ tx[s].key \notin Revoked(s)
         /\ tx[s].step = (IF tx[s].kind \in MintKinds THEN "CALLED" ELSE "FOUND")
         /\ Mints(tx[s]) => keys'[tx[s].key] = Minted(tx[s])
         /\ ~Mints(tx[s]) => keys'[tx[s].key] = keys[tx[s].key]
         /\ \A k \in Revoked(s) :
              keys'[k].state = "REVOKED" /\ keys'[k].kind = keys[k].kind
         /\ \A k \in Prefixes \ (Revoked(s) \cup {tx[s].key}) : keys'[k] = keys[k]
         /\ keys' \in [Prefixes -> KeyRows]
         /\ tx' = [tx EXCEPT ![s] = NoTx] /\ begun' = begun /\ fleet' = fleet
<1>1. InFlight(s) /\ tx' = [tx EXCEPT ![s] = NoTx] /\ begun' = begun /\ fleet' = fleet
      /\ tx[s].step = (IF tx[s].kind \in MintKinds THEN "CALLED" ELSE "FOUND")
  BY DEF Commit, InFlight, MintKinds
<1>2. tx[s] \in TxRows
  BY <1>1, TxIsTyped DEF KeysInv
<1>3. tx[s].key \in Prefixes /\ keys[tx[s].key].state = "NONE"
  <2>1. tx[s].key \in 2..(begun + 1) /\ begun \in 0..MaxRequests
    BY <1>1 DEF KeysInv, Fresh, Typed
  <2> QED
    BY <1>1, <2>1, PrefixesAreNat DEF KeysInv, Fresh, Prefixes
<1>4. tx[s].key \notin Revoked(s) /\ Revoked(s) \subseteq Prefixes
  BY <1>3 DEF Revoked, Active
<1>5. keys' = [k \in Prefixes |->
                 CASE Mints(tx[s]) /\ k = tx[s].key -> Minted(tx[s])
                   [] k \in Revoked(s) -> [keys[k] EXCEPT !.state = "REVOKED"]
                   [] OTHER -> keys[k]]
  BY DEF Commit, Revoked
<1>6. Minted(tx[s]) \in KeyRows
  BY <1>2 DEF Minted, KeyRows, Kinds, TxRows
<1>7. \A k \in Prefixes :
        /\ keys[k] \in KeyRows
        /\ [keys[k] EXCEPT !.state = "REVOKED"] \in KeyRows
        /\ [keys[k] EXCEPT !.state = "REVOKED"].state = "REVOKED"
        /\ [keys[k] EXCEPT !.state = "REVOKED"].kind = keys[k].kind
  BY DEF KeysInv, Typed, KeyRows
<1>8. \A k \in Prefixes :
        /\ Mints(tx[s]) /\ k = tx[s].key => keys'[k] = Minted(tx[s])
        /\ k \in Revoked(s) => keys'[k] = [keys[k] EXCEPT !.state = "REVOKED"]
        /\ k \notin Revoked(s) /\ ~(Mints(tx[s]) /\ k = tx[s].key) => keys'[k] = keys[k]
  BY <1>4, <1>5
<1>9. keys' \in [Prefixes -> KeyRows]
  <2>1. \A k \in Prefixes : keys'[k] \in KeyRows
    BY <1>6, <1>7, <1>8
  <2> QED
    BY <1>5, <2>1
<1> QED
  BY <1>1, <1>2, <1>3, <1>4, <1>7, <1>8, <1>9

LEMMA CommitKeepsKeys ==
  ASSUME KeysInv, NEW s \in Sessions, NEW delivered \in BOOLEAN, Commit(s, delivered)
  PROVE  /\ \A k \in Prefixes : keys[k].state # "NONE" =>
              keys'[k].state # "NONE" /\ keys'[k].kind = keys[k].kind
         /\ Active' \subseteq Active \cup {tx[s].key}
         /\ \A o \in Sessions \ {s} : tx'[o] = tx[o]
         /\ tx'[s] = NoTx
<1>1. \A k \in Prefixes : keys[k].state # "NONE" => k # tx[s].key
  BY CommitShape
<1>2. tx' = [tx EXCEPT ![s] = NoTx] /\ tx \in [Sessions -> TxRows \cup {NoTx}]
  BY CommitShape DEF KeysInv, Typed
<1> QED
  BY <1>1, <1>2, CommitShape DEF Active

LEMMA CommitKeeps ==
  ASSUME KeysInv, NEW s \in Sessions, NEW delivered \in BOOLEAN, Commit(s, delivered)
  PROVE  KeysInv'
<1>1. Typed'
  <2>1. tx' \in [Sessions -> TxRows \cup {NoTx}]
    BY CommitShape DEF KeysInv, Typed
  <2>2. shown' \subseteq Prefixes
    BY CommitShape DEF Commit, KeysInv, Typed
  <2>3. calls' \subseteq CallRows
    <3>1. \A c \in calls : [c EXCEPT !.late = @ \/ c.key \in Revoked(s)] \in CallRows
      BY DEF KeysInv, Typed, CallRows
    <3> QED
      BY <3>1 DEF Commit, Revoked
  <2>4. deleted' \in BOOLEAN
    BY DEF Commit, KeysInv, Typed
  <2> QED
    BY <2>1, <2>2, <2>3, <2>4, CommitShape DEF KeysInv, Typed
<1>2. Fresh'
  <2>1. \A o \in Sessions : InFlight(o)' =>
          o # s /\ tx'[o] = tx[o] /\ InFlight(o) /\ tx[o].key # tx[s].key
    BY CommitKeepsKeys, CommitShape DEF InFlight, KeysInv, Fresh
  <2>2. \A o \in Sessions : InFlight(o)' =>
          /\ tx'[o].key \in 2..(begun' + 1)
          /\ keys'[tx'[o].key].state = "NONE"
    <3> SUFFICES ASSUME NEW o \in Sessions, InFlight(o)'
                 PROVE  tx[o].key \in 2..(begun + 1) /\ keys'[tx[o].key].state = "NONE"
      BY <2>1, CommitShape
    <3>1. tx[o].key \in 2..(begun + 1) /\ keys[tx[o].key].state = "NONE"
      BY <2>1 DEF KeysInv, Fresh
    <3>2. tx[o].key \in Prefixes
      BY <3>1, PrefixesAreNat DEF KeysInv, Typed, Prefixes
    <3>3. tx[o].key \notin Revoked(s)
      BY <3>1 DEF Revoked, Active
    <3> QED
      BY <2>1, <3>1, <3>2, <3>3, CommitShape
  <2>3. \A o, p \in Sessions : o # p /\ InFlight(o)' /\ InFlight(p)' =>
          tx'[o].key # tx'[p].key
    BY <2>1 DEF KeysInv, Fresh
  <2>4. \A k \in Prefixes : k > begun' + 1 => keys'[k].state = "NONE"
    <3> SUFFICES ASSUME NEW k \in Prefixes, k > begun + 1
                 PROVE  keys'[k].state = "NONE"
      BY CommitShape
    <3>1. keys[k].state = "NONE"
      BY DEF KeysInv, Fresh
    <3>2. tx[s].key \in 2..(begun + 1) /\ begun \in Nat
      BY CommitShape DEF KeysInv, Fresh, Typed
    <3>3. k # tx[s].key
      BY <3>2, PrefixesAreNat
    <3>4. k \notin Revoked(s)
      BY <3>1 DEF Revoked, Active
    <3> QED
      BY <3>1, <3>3, <3>4, CommitShape
  <2>5. \A k \in shown' : keys'[k].state # "NONE"
    <3>1. \A k \in shown : k \in Prefixes /\ keys[k].state # "NONE"
      BY DEF KeysInv, Fresh, Typed
    <3>2. Mints(tx[s]) => keys'[tx[s].key].state # "NONE"
      <4>1. Minted(tx[s]).state = "ACTIVE"
        BY DEF Minted
      <4> QED
        BY <4>1, CommitShape
    <3>3. shown' \subseteq shown \cup (IF Mints(tx[s]) THEN {tx[s].key} ELSE {})
      BY DEF Commit, Answered
    <3> QED
      BY <3>1, <3>2, <3>3, CommitKeepsKeys
  <2> QED
    BY <2>2, <2>3, <2>4, <2>5 DEF Fresh
<1>3. ASSUME NEW o \in Sessions PROVE Staged(o)'
  <2>1. CASE o = s
    BY <2>1, CommitKeepsKeys DEF Staged, InFlight
  <2>2. CASE o # s /\ InFlight(o)
    <3>1. tx'[o] = tx[o] /\ Staged(o) /\ tx[o] \in TxRows
      BY <2>2, CommitKeepsKeys, TxIsTyped DEF KeysInv
    <3>2. \A k \in tx[o].before \cup tx[o].found : k \in Prefixes /\ keys'[k].state # "NONE"
      BY <2>2, <3>1, CommitKeepsKeys DEF Staged, TxRows
    <3>3. tx[o].before \cap Active' \subseteq Active
      BY <2>2, <3>1, CommitKeepsKeys, CommitShape DEF Staged
    <3> QED
      BY <3>1, <3>2, <3>3 DEF Staged, InFlight
  <2>3. CASE o # s /\ ~InFlight(o)
    BY <2>3, CommitKeepsKeys DEF Staged, InFlight
  <2> QED
    BY <2>1, <2>2, <2>3
<1>4. RotationNeverLocksOut'
  <2>1. CASE tx[s].kind = "REVOKE"
    BY <2>1 DEF Commit, RotationNeverLocksOut
  <2>2. CASE tx[s].kind \notin {"REVOKE", "MINT_GATEWAY"}
    <3>1. Mints(tx[s]) /\ keys'[tx[s].key] = Minted(tx[s])
      BY <2>2, CommitShape DEF Mints
    <3>2. tx[s].key \in Active' /\ keys'[tx[s].key].kind = "SDK"
      BY <2>2, <3>1, CommitShape DEF Minted, Active
    <3> QED
      BY <3>2 DEF RotationNeverLocksOut
  <2>3. CASE tx[s].kind = "MINT_GATEWAY"
    <3>1. Revoked(s) = {}
      BY <2>3, CommitShape DEF KeysInv, Staged, MintKinds, Revoked
    <3>2. \A k \in Active : k # tx[s].key /\ k \in Prefixes
      BY CommitShape DEF Active
    <3>3. \A k \in Active : keys'[k] = keys[k] /\ k \in Active'
      BY <3>1, <3>2, CommitShape DEF Active
    <3>4. deleted => deleted'
      BY DEF Commit
    <3> QED
      BY <3>3, <3>4 DEF KeysInv, RotationNeverLocksOut
  <2> QED
    BY <2>1, <2>2, <2>3
<1>5. DeadKeysOnlyFinish'
  <2> SUFFICES ASSUME NEW d \in calls', keys'[d.key].state # "ACTIVE"
               PROVE  d.late
    BY DEF DeadKeysOnlyFinish
  <2>1. PICK c \in calls : d = [c EXCEPT !.late = @ \/ c.key \in Revoked(s)]
    BY DEF Commit, Revoked
  <2>2. c \in CallRows /\ c.key \in Prefixes /\ d.key = c.key
        /\ d.late = (c.late \/ c.key \in Revoked(s))
    BY <2>1 DEF KeysInv, Typed, CallRows
  <2>3. CASE c.key \in Revoked(s)
    BY <2>2, <2>3
  <2>4. CASE c.key \notin Revoked(s)
    <3>1. keys[c.key].state # "ACTIVE"
      BY <2>2, <2>4, CommitShape
    <3> QED
      BY <2>2, <3>1 DEF KeysInv, DeadKeysOnlyFinish
  <2> QED
    BY <2>3, <2>4
<1> QED
  BY <1>1, <1>2, <1>3, <1>4, <1>5 DEF KeysInv

LEMMA CallsKeep ==
  ASSUME KeysInv,
         \/ \E k \in Prefixes, a \in Agents : Admit(k, a)
         \/ \E c \in calls : Land(c)
  PROVE  KeysInv'
<1>1. UNCHANGED <<keys, shown, tx, begun, deleted>>
  BY DEF Admit, Land
<1>2. Typed' /\ DeadKeysOnlyFinish'
  <2>1. ASSUME NEW k \in Prefixes, NEW a \in Agents, Admit(k, a)
        PROVE  Typed' /\ DeadKeysOnlyFinish'
    <3>1. keys[k].state = "ACTIVE"
      BY <2>1 DEF Admit, Resolves
    <3>2. [key |-> k, agent |-> a, late |-> FALSE] \in CallRows
      BY DEF CallRows
    <3>3. calls' = calls \cup {[key |-> k, agent |-> a, late |-> FALSE]} /\ fleet' = fleet
      BY <2>1 DEF Admit
    <3>4. Typed'
      BY <1>1, <3>2, <3>3 DEF KeysInv, Typed
    <3> QED
      BY <1>1, <3>1, <3>3, <3>4 DEF KeysInv, DeadKeysOnlyFinish
  <2>2. ASSUME NEW c \in calls, Land(c)
        PROVE  Typed' /\ DeadKeysOnlyFinish'
    <3>1. c.agent \in Agents
      BY DEF KeysInv, Typed, CallRows
    <3> QED
      BY <1>1, <2>2, <3>1 DEF Land, KeysInv, Typed, DeadKeysOnlyFinish
  <2> QED
    BY <2>1, <2>2
<1>3. Fresh' /\ RotationNeverLocksOut'
  BY <1>1 DEF KeysInv, Fresh, InFlight, RotationNeverLocksOut, Active
<1>4. \A s \in Sessions : Staged(s)'
  BY <1>1 DEF KeysInv, Staged, InFlight, Active
<1> QED
  BY <1>2, <1>3, <1>4 DEF KeysInv

------------------------------------------------------------------------------
(* The theorems about keys *)

\* A step of the wizard is, for the keys, a request, a statement of one, a commit or none.
LEMMA StepsOfKeys ==
  ASSUME WizardTyped, [Next]_vars
  PROVE  \/ \E s \in Sessions, q \in Asks : Call(s, q)
         \/ \E s \in Sessions : Find(s)
         \/ \E s \in Sessions, delivered \in BOOLEAN : Commit(s, delivered)
         \/ \E k \in Prefixes, a \in Agents : Admit(k, a)
         \/ \E c \in calls : Land(c)
         \/ UNCHANGED keyVars
<1>1. CASE NextStep \/ Back \/ Poll \/ UNCHANGED vars
  BY <1>1 DEF NextStep, Back, Poll, vars
<1>2. ASSUME NEW a \in Agents \cup {NoAgent}, Identify(a) PROVE UNCHANGED keyVars
  BY <1>2 DEF Identify
<1>3. ASSUME NEW t \in Tiers, ChooseTier(t) PROVE UNCHANGED keyVars
  BY <1>3 DEF ChooseTier
<1>4. ASSUME NEW a \in Agents, PollAnswered(a) PROVE UNCHANGED keyVars
  BY <1>4 DEF PollAnswered
<1>5. ASSUME NEW s \in Sessions, ClickMint(s) PROVE \E q \in Asks : Call(s, q)
  <2>1. /\ [kind |-> "MINT", agent |-> NoAgent, target |-> NoKey] \in Asks
        /\ [kind |-> "MINT_GATEWAY", agent |-> wizard.agent, target |-> NoKey] \in Asks
    BY DEF Asks, MintKinds, WizardTyped
  <2> QED
    BY <1>5, <2>1 DEF ClickMint
<1>6. ASSUME NEW s \in Sessions, NEW delivered \in BOOLEAN, CommitOrHear(s, delivered)
      PROVE  Commit(s, delivered)
  BY <1>6 DEF CommitOrHear
<1>7. Asked \subseteq Asks
  BY DEF Asked, Asks, MintKinds, FindKinds
<1> QED
  BY <1>1, <1>2, <1>3, <1>4, <1>5, <1>6, <1>7 DEF Next

LEMMA KeysStep ==
  ASSUME KeysInv, WizardTyped, [Next]_vars
  PROVE  KeysInv'
<1>1. CASE UNCHANGED keyVars
  <2>1. UNCHANGED <<keys, shown, tx, calls, fleet, begun, deleted>>
    BY <1>1 DEF keyVars
  <2>2. Typed' /\ Fresh' /\ RotationNeverLocksOut' /\ DeadKeysOnlyFinish'
    BY <2>1 DEF KeysInv, Typed, Fresh, InFlight, RotationNeverLocksOut, DeadKeysOnlyFinish,
                Active
  <2>3. \A s \in Sessions : Staged(s)'
    BY <2>1 DEF KeysInv, Staged, InFlight, Active
  <2> QED
    BY <2>2, <2>3 DEF KeysInv
<1> QED
  BY <1>1, StepsOfKeys, CallKeeps, FindKeeps, CommitKeeps, CallsKeep

------------------------------------------------------------------------------
(* The wizard *)

\* Keys are not taken back and their kind does not change; the fleet only grows.
LEMMA KeysLast ==
  ASSUME KeysInv, WizardTyped, [Next]_vars
  PROVE  /\ \A k \in Prefixes : keys[k].state # "NONE" =>
              keys'[k].state # "NONE" /\ keys'[k].kind = keys[k].kind
         /\ fleet \subseteq fleet'
<1>1. ASSUME NEW s \in Sessions, NEW delivered \in BOOLEAN, Commit(s, delivered)
      PROVE  /\ \A k \in Prefixes : keys[k].state # "NONE" =>
                  keys'[k].state # "NONE" /\ keys'[k].kind = keys[k].kind
             /\ fleet \subseteq fleet'
  BY <1>1, CommitKeepsKeys, CommitShape
<1>2. ASSUME UNCHANGED keys, fleet \subseteq fleet'
      PROVE  \A k \in Prefixes : keys[k].state # "NONE" =>
               keys'[k].state # "NONE" /\ keys'[k].kind = keys[k].kind
  BY <1>2
<1>3. ASSUME ~\E s \in Sessions, delivered \in BOOLEAN : Commit(s, delivered)
      PROVE  UNCHANGED keys /\ fleet \subseteq fleet'
  BY <1>3, StepsOfKeys DEF Call, Find, Admit, Land, keyVars
<1> QED
  BY <1>1, <1>2, <1>3

\* A request of another goes on: what the wizard waits for stays as it was.
LEMMA RequestsLast ==
  ASSUME KeysInv, NEW o \in Sessions, InFlight(o),
         \/ \E s \in Sessions, q \in Asks : Call(s, q)
         \/ \E s \in Sessions : Find(s)
         \/ \E s \in Sessions \ {o}, delivered \in BOOLEAN : Commit(s, delivered)
         \/ \E k \in Prefixes, a \in Agents : Admit(k, a)
         \/ \E c \in calls : Land(c)
         \/ UNCHANGED keyVars
  PROVE  InFlight(o)' /\ tx'[o].kind = tx[o].kind
<1>1. tx[o] \in TxRows
  BY TxIsTyped DEF KeysInv
<1>2. ASSUME NEW s \in Sessions, NEW q \in Asks, Call(s, q) PROVE tx'[o] = tx[o]
  BY <1>2 DEF Call, InFlight, KeysInv, Typed
<1>3. ASSUME NEW s \in Sessions \ {o}, NEW delivered \in BOOLEAN, Commit(s, delivered)
      PROVE  tx'[o] = tx[o]
  BY <1>3, CommitKeepsKeys
<1>4. ASSUME NEW s \in Sessions, Find(s)
      PROVE  tx'[o] = tx[o] \/ (tx'[o] = [tx[o] EXCEPT !.step = "FOUND", !.found = RevokedBy(tx[o])]
                                 /\ tx[o].kind \in FindKinds)
  BY <1>4 DEF Find, FindKinds, KeysInv, Typed
<1>5. ASSUME tx'[o] = [tx[o] EXCEPT !.step = "FOUND", !.found = RevokedBy(tx[o])],
             tx[o].kind \in FindKinds
      PROVE  InFlight(o)' /\ tx'[o].kind = tx[o].kind
  <2>1. tx'[o].kind = tx[o].kind
    BY <1>1, <1>5 DEF TxRows
  <2>2. tx'[o].kind # "NONE" /\ NoTx.kind = "NONE"
    BY <1>5, <2>1 DEF FindKinds, NoTx
  <2> QED
    BY <2>1, <2>2 DEF InFlight
<1>6. (\E k \in Prefixes, a \in Agents : Admit(k, a)) \/ (\E c \in calls : Land(c))
        \/ UNCHANGED keyVars => tx' = tx
  BY DEF Admit, Land, keyVars
<1>7. tx'[o] = tx[o] => InFlight(o)' /\ tx'[o].kind = tx[o].kind
  BY DEF InFlight
<1> QED
  BY <1>2, <1>3, <1>4, <1>5, <1>6, <1>7

\* Whatever the wizard goes on holding is still what it was.
LEMMA HoldingsLast ==
  ASSUME KeysInv, WizardInv, [Next]_vars
  PROVE  /\ wizard.gwKey # NoKey => KeyOfKind(wizard.gwKey, "GATEWAY") /\
              keys'[wizard.gwKey].state # "NONE" /\ keys'[wizard.gwKey].kind = "GATEWAY"
         /\ wizard.sdkKey # NoKey => KeyOfKind(wizard.sdkKey, "SDK") /\
              keys'[wizard.sdkKey].state # "NONE" /\ keys'[wizard.sdkKey].kind = "SDK"
         /\ wizard.found # NoAgent => wizard.found \in fleet'
  BY KeysLast DEF WizardInv, KeyOfKind, LiveIsOfTheFleet, Live

\* The wizard keeps what it holds and goes on waiting for what it waited for.
LEMMA WaitingKeeps ==
  ASSUME KeysInv, WizardInv, [Next]_vars, WizardTyped',
         wizard'.gwKey = wizard.gwKey, wizard'.sdkKey = wizard.sdkKey,
         wizard'.found = wizard.found \/ wizard'.found \in fleet',
         wizard'.minting = wizard.minting,
         wizard.minting \in Sessions =>
           tx'[wizard.minting] # NoTx /\ tx'[wizard.minting].kind \in MintKinds
  PROVE  WizardInv'
<1>1. (wizard.minting \in Sessions =>
         InFlight(wizard.minting) /\ tx[wizard.minting].kind \in MintKinds)'
  BY DEF InFlight
<1> QED
  BY <1>1, HoldingsLast DEF WizardInv, KeyOfKind, LiveIsOfTheFleet, Live

LEMMA WizardStep ==
  ASSUME KeysInv, WizardInv, [Next]_vars
  PROVE  WizardInv'
<1> USE DEF WizardTyped
<1>1. WizardTyped
  BY DEF WizardInv
<1>2. ASSUME NEW s \in Sessions, tx'[s].kind \in MintKinds PROVE tx'[s] # NoTx
  <2>1. NoTx.kind \notin MintKinds
    BY DEF NoTx, MintKinds
  <2> QED
    BY <1>2, <2>1
\* Steps of the keys alone, and those of the wizard that leave the keys alone.
<1>3. ASSUME wizard.minting \in Sessions,
             \/ \E s \in Sessions, q \in Asks : Call(s, q)
             \/ \E s \in Sessions : Find(s)
             \/ \E s \in Sessions \ {wizard.minting}, delivered \in BOOLEAN : Commit(s, delivered)
             \/ \E k \in Prefixes, a \in Agents : Admit(k, a)
             \/ \E c \in calls : Land(c)
             \/ UNCHANGED keyVars
      PROVE  tx'[wizard.minting] # NoTx /\ tx'[wizard.minting].kind \in MintKinds
  <2>1. InFlight(wizard.minting) /\ tx[wizard.minting].kind \in MintKinds
    BY <1>3 DEF WizardInv
  <2>2. tx'[wizard.minting].kind \in MintKinds
    BY <1>3, <2>1, RequestsLast
  <2> QED
    BY <1>3, <2>1, <2>2, <1>2 DEF InFlight
<1>4. ASSUME wizard' = wizard,
             \/ \E s \in Sessions, q \in Asks : Call(s, q)
             \/ \E s \in Sessions : Find(s)
             \/ \E s \in Sessions, delivered \in BOOLEAN :
                  s # wizard.minting /\ Commit(s, delivered)
             \/ \E k \in Prefixes, a \in Agents : Admit(k, a)
             \/ \E c \in calls : Land(c)
             \/ UNCHANGED keyVars
      PROVE  WizardInv'
  BY <1>1, <1>3, <1>4, WaitingKeeps
<1>5. ASSUME UNCHANGED keyVars, WizardTyped', wizard'.gwKey = wizard.gwKey,
             wizard'.sdkKey = wizard.sdkKey, wizard'.minting = wizard.minting,
             wizard'.found = wizard.found \/ wizard'.found \in fleet
      PROVE  WizardInv'
  BY <1>3, <1>5, WaitingKeeps DEF keyVars
<1>6. ASSUME NEW a \in Agents \cup {NoAgent}, Identify(a) PROVE WizardInv'
  BY <1>1, <1>5, <1>6 DEF Identify
<1>7. ASSUME NEW t \in Tiers, ChooseTier(t) PROVE WizardInv'
  BY <1>1, <1>5, <1>7 DEF ChooseTier
<1>8. CASE NextStep
  BY <1>1, <1>5, <1>8 DEF NextStep
<1>9. CASE Back
  BY <1>1, <1>5, <1>9 DEF Back
<1>10. CASE Poll \/ UNCHANGED vars
  BY <1>4, <1>10 DEF Poll, vars
<1>11. ASSUME NEW a \in Agents, PollAnswered(a) PROVE WizardInv'
  BY <1>1, <1>5, <1>11 DEF PollAnswered, FleetHasAgent
<1>12. ASSUME NEW s \in Sessions, ClickMint(s) PROVE WizardInv'
  <2>1. wizard' = [wizard EXCEPT !.minting = s] /\ keys' = keys /\ fleet' = fleet
    BY <1>12 DEF ClickMint, Call
  <2>2. tx'[s].kind \in MintKinds
    BY <1>12 DEF ClickMint, Call, MintKinds, KeysInv, Typed
  <2>3. InFlight(s)' /\ wizard'.minting = s
    BY <1>1, <1>2, <2>1, <2>2 DEF InFlight
  <2>4. (wizard.minting \in Sessions =>
           InFlight(wizard.minting) /\ tx[wizard.minting].kind \in MintKinds)'
    BY <2>2, <2>3 DEF InFlight
  <2> QED
    BY <1>1, <2>1, <2>4, HoldingsLast DEF WizardInv, KeyOfKind, LiveIsOfTheFleet, Live
<1>13. ASSUME NEW s \in Sessions, NEW delivered \in BOOLEAN, CommitOrHear(s, delivered),
              wizard.minting = s
       PROVE  WizardInv'
  <2>1. Commit(s, delivered) /\ tx[s].kind \in MintKinds /\ Mints(tx[s])
    BY <1>13 DEF CommitOrHear, WizardInv, Mints, MintKinds
  <2>2. tx[s].key \in Prefixes /\ keys'[tx[s].key] = Minted(tx[s])
    BY <2>1, CommitShape
  <2>3. /\ Minted(tx[s]).state = "ACTIVE"
        /\ Minted(tx[s]).kind = IF tx[s].kind = "MINT_GATEWAY" THEN "GATEWAY" ELSE "SDK"
    BY DEF Minted
  <2>4. /\ WizardTyped' /\ wizard'.minting = NotMinting /\ wizard'.found = wizard.found
        /\ \/ wizard'.gwKey = wizard.gwKey
           \/ wizard'.gwKey = tx[s].key /\ tx[s].kind = "MINT_GATEWAY"
        /\ \/ wizard'.sdkKey = wizard.sdkKey
           \/ wizard'.sdkKey = tx[s].key /\ tx[s].kind # "MINT_GATEWAY"
    <3>1. CASE ~delivered
      <4>1. wizard' = [wizard EXCEPT !.minting = NotMinting]
        BY <1>13, <3>1 DEF CommitOrHear
      <4> QED
        BY <1>1, <4>1
    <3>2. CASE delivered /\ tx[s].kind = "MINT_GATEWAY"
      <4>1. wizard' = [wizard EXCEPT !.minting = NotMinting, !.gwKey = tx[s].key]
        BY <1>13, <3>2 DEF CommitOrHear, Heard
      <4> QED
        BY <1>1, <2>2, <3>2, <4>1
    <3>3. CASE delivered /\ tx[s].kind # "MINT_GATEWAY"
      <4>1. wizard' = [wizard EXCEPT !.minting = NotMinting, !.sdkKey = tx[s].key]
        BY <1>13, <3>3 DEF CommitOrHear, Heard
      <4> QED
        BY <1>1, <2>2, <3>3, <4>1
    <3> QED
      BY <3>1, <3>2, <3>3
  <2>5. wizard'.minting \notin Sessions
    BY <2>4, OnboardingAssumption
  <2> QED
    BY <2>2, <2>3, <2>4, <2>5, HoldingsLast DEF WizardInv, KeyOfKind, LiveIsOfTheFleet, Live
<1>14. ASSUME NEW s \in Sessions, NEW delivered \in BOOLEAN, CommitOrHear(s, delivered),
              wizard.minting # s
       PROVE  WizardInv'
  BY <1>4, <1>14 DEF CommitOrHear
<1>15. Asked \subseteq Asks
  BY DEF Asked, Asks, MintKinds, FindKinds
<1> QED
  BY <1>4, <1>6, <1>7, <1>8, <1>9, <1>10, <1>11, <1>12, <1>13, <1>14, <1>15 DEF Next

------------------------------------------------------------------------------
(* The theorems *)

IInv == KeysInv /\ WizardInv

LEMMA Invariance == Spec => []IInv
<1>1. Init => IInv
  <2> SUFFICES ASSUME Init PROVE WizardInv
    BY InitKeys DEF Init, IInv
  <2> QED
    BY OnboardingAssumption DEF Init, WizardInv, WizardTyped, LiveIsOfTheFleet, Live
<1>2. IInv /\ [Next]_vars => IInv'
  BY KeysStep, WizardStep DEF IInv, WizardInv
<1> QED
  BY <1>1, <1>2, PTL DEF Spec

\* However many rotations overlap and whatever answers are lost, an organisation whose keys
\* are only ever rotated has a machine key that works.
THEOREM RotationsLeaveAKey == Spec => []RotationNeverLocksOut
  BY Invariance, PTL DEF IInv, KeysInv

\* No call goes on under a dead key but those admitted while it lived.
THEOREM DeadKeysAdmitNothing == Spec => []DeadKeysOnlyFinish
  BY Invariance, PTL DEF IInv, KeysInv

\* The wizard's snippets hold keys of their own tier, and its "live" is of the fleet.
THEOREM TheWizardIsHonest == Spec => []WizardIsHonest
<1>1. IInv => WizardIsHonest
  BY DEF IInv, WizardInv, WizardIsHonest, SnippetKeyIsOfItsTier, SnippetKey, KeyOfKind
<1> QED
  BY <1>1, Invariance, PTL

\* A rotation of all keys has killed, when it answers, all those that were active when it
\* was called; and no rotation adds to the keys that somebody holds.
RotatesExactly(s) ==
  tx[s] # NoTx /\ tx'[s] = NoTx =>
    /\ tx[s].kind = "ROTATE_ALL" => \A k \in tx[s].before : keys'[k].state = "REVOKED"
    /\ tx[s].kind = "ROTATE" /\ (\A k \in Active : keys'[k].state = "ACTIVE") =>
         tx[s].key \notin shown'

LEMMA CommitIsExact ==
  ASSUME KeysInv, NEW s \in Sessions, NEW delivered \in BOOLEAN, Commit(s, delivered)
  PROVE  RotatesExactly(s)
<1>1. Staged(s) /\ InFlight(s) /\ tx[s] \in TxRows
  BY CommitShape DEF KeysInv
<1>2. ASSUME tx[s].kind = "ROTATE_ALL", NEW k \in tx[s].before
      PROVE  keys'[k].state = "REVOKED"
  <2>1. k \in Prefixes /\ keys[k].state # "NONE" /\ keys[k] \in KeyRows
    BY <1>1, <1>2 DEF Staged, TxRows, KeysInv, Typed
  <2>2. tx[s].step = "FOUND"
    BY <1>2, CommitShape DEF MintKinds
  <2>3. CASE k \in Active
    BY <1>1, <1>2, <2>2, <2>3, CommitShape DEF Staged, Revoked
  <2>4. CASE k \notin Active
    <3>1. keys[k].state = "REVOKED"
      BY <2>1, <2>4 DEF Active, KeyRows
    <3>2. k # tx[s].key /\ k \notin Revoked(s)
      BY <2>1, <2>4, CommitShape DEF Revoked
    <3> QED
      BY <2>1, <3>1, <3>2, CommitShape
  <2> QED
    BY <2>3, <2>4
<1>3. ASSUME tx[s].kind = "ROTATE", \A k \in Active : keys'[k].state = "ACTIVE"
      PROVE  tx[s].key \notin shown'
  <2>1. Revoked(s) = {}
    BY <1>3, CommitShape DEF Revoked
  <2>2. shown' = shown
    BY <1>3, <2>1 DEF Commit, Answered, Revoked
  <2> QED
    BY <2>2, CommitShape DEF KeysInv, Fresh
<1> QED
  BY <1>2, <1>3 DEF RotatesExactly

THEOREM RotationsAreExact == Spec => RotationIsExact
<1>1. IInv /\ [Next]_vars => [\A s \in Sessions : RotatesExactly(s)]_keyVars
  <2> SUFFICES ASSUME KeysInv, WizardTyped, [Next]_vars, NEW s \in Sessions,
                      tx[s] # NoTx, tx'[s] = NoTx
               PROVE  RotatesExactly(s)
    BY DEF IInv, WizardInv, RotatesExactly
  <2>1. ASSUME ~\E delivered \in BOOLEAN : Commit(s, delivered)
        PROVE  FALSE
    BY <2>1, RequestsLast, StepsOfKeys DEF InFlight
  <2> QED
    BY <2>1, CommitIsExact
<1> QED
  BY <1>1, Invariance, PTL DEF Spec, RotationIsExact, RotatesExactly
==============================================================================
