------------------------------ MODULE Onboarding ------------------------------
(***************************************************************************)
(* The "Add an agent" wizard of the dashboard (apps/web/src/components/    *)
(* onboarding-wizard-client.tsx, lib/onboarding-wizard.ts) in one browser  *)
(* tab, over the keys it mints and the fleet it watches. Fetches return in *)
(* any order and after the user has moved on.                              *)
(*                                                                         *)
(* Abstracted: the texts of the panes and snippets, of which the agent and *)
(* the key they name are kept; the display name and the task key.          *)
(***************************************************************************)
EXTENDS Keys, Sequences

VARIABLES
  wizard,   \* the state of the component; "found" is agentLive, and whose poll set it
  polls     \* the fleet polls in flight, by the agent each looks for

vars == <<keyVars, wizard, polls>>

StepOrder == <<"identify", "tier", "setup", "signal">>
Steps == {StepOrder[i] : i \in DOMAIN StepOrder}
Tiers == {"gateway", "connector", "sdk"}
NoTier == "none"
NotMinting == "NOT_MINTING"

ASSUME OnboardingAssumption == NotMinting \notin Sessions

TypeOK ==
  /\ KeysTypeOK
  /\ wizard \in
       [step : Steps, agent : Agents \cup {NoAgent}, tier : Tiers \cup {NoTier},
        gwKey : Prefixes \cup {NoKey}, sdkKey : Prefixes \cup {NoKey},
        found : Agents \cup {NoAgent},
        minting : Sessions \cup {NotMinting}]
  /\ polls \subseteq Agents

Init ==
  /\ KeysInit
  /\ wizard = [step |-> "identify", agent |-> NoAgent, tier |-> NoTier, gwKey |-> NoKey,
               sdkKey |-> NoKey, found |-> NoAgent, minting |-> NotMinting]
  /\ polls = {}

Still == UNCHANGED polls
Position(step) == CHOOSE i \in DOMAIN StepOrder : StepOrder[i] = step

Identify(a) ==
  /\ wizard.step = "identify"
  /\ wizard' = [wizard EXCEPT !.agent = a]
  /\ UNCHANGED keyVars /\ Still

ChooseTier(t) ==
  /\ wizard.step = "tier"
  /\ wizard' = [wizard EXCEPT !.tier = t]
  /\ UNCHANGED keyVars /\ Still

CanAdvance ==
  \/ wizard.step = "identify" /\ wizard.agent # NoAgent
  \/ wizard.step = "tier" /\ wizard.tier # NoTier
  \/ wizard.step = "setup"

NextStep ==
  /\ CanAdvance
  /\ wizard' = [wizard EXCEPT !.step = StepOrder[Position(@) + 1]]
  /\ UNCHANGED keyVars /\ Still

\* Nothing is cleared on the way back.
Back ==
  /\ Position(wizard.step) > 1
  /\ wizard' = [wizard EXCEPT !.step = StepOrder[Position(@) - 1]]
  /\ UNCHANGED keyVars /\ Still

\* mintGateway and mintSdk, whose buttons are disabled while one is under way.
ClickMint(s) ==
  /\ wizard.step = "setup"
  /\ wizard.minting = NotMinting
  /\ \/ /\ wizard.tier = "gateway"
        /\ Call(s, [kind |-> "MINT_GATEWAY", agent |-> wizard.agent, target |-> NoKey])
     \/ /\ wizard.tier = "sdk"
        /\ Call(s, [kind |-> "MINT", agent |-> NoAgent, target |-> NoKey])
  /\ wizard' = [wizard EXCEPT !.minting = s]
  /\ Still

\* Mutant: one field for the key of either tier.
HeardInEither(kind, key) ==
  [wizard EXCEPT !.minting = NotMinting, !.gwKey = key, !.sdkKey = key]

\* The key that the answer holds goes to the snippet of its tier, whatever the step, the
\* agent and the tier are by now.
Heard(kind, key) ==
  IF kind = "MINT_GATEWAY" THEN [wizard EXCEPT !.minting = NotMinting, !.gwKey = key]
  ELSE [wizard EXCEPT !.minting = NotMinting, !.sdkKey = key]

\* A request commits; the wizard hears of its own.
CommitOrHear(s, delivered) ==
  /\ Commit(s, delivered)
  /\ wizard' = CASE wizard.minting # s          -> wizard
                 [] wizard.minting = s /\ delivered  -> Heard(tx[s].kind, tx[s].key)
                 [] wizard.minting = s /\ ~delivered -> [wizard EXCEPT !.minting = NotMinting]
  /\ Still

Live == wizard.found # NoAgent

\* At the last step the fleet is polled until the agent is live; each poll looks for the
\* agent that was entered when it was sent.
Poll ==
  /\ wizard.step = "signal"
  /\ ~Live
  /\ polls' = polls \cup {wizard.agent}
  /\ UNCHANGED <<keyVars, wizard>>

FleetHasAgent(a) == a \in fleet

PollAnswered(a) ==
  /\ a \in polls
  /\ polls' = polls \ {a}
  /\ wizard' = [wizard EXCEPT !.found = IF ~Live /\ FleetHasAgent(a) THEN a ELSE @]
  /\ UNCHANGED keyVars

Next ==
  \/ \E a \in Agents \cup {NoAgent} : Identify(a)
  \/ \E t \in Tiers : ChooseTier(t)
  \/ NextStep \/ Back \/ Poll
  \/ \E a \in Agents : PollAnswered(a)
  \/ \E s \in Sessions :
       \/ ClickMint(s)
       \/ \E delivered \in BOOLEAN : CommitOrHear(s, delivered)
       \/ \E q \in Asked : Call(s, q) /\ UNCHANGED <<wizard, polls>>
       \/ Find(s) /\ UNCHANGED <<wizard, polls>>
  \/ \E k \in Prefixes, a \in Agents : Admit(k, a) /\ UNCHANGED <<wizard, polls>>
  \/ \E c \in calls : Land(c) /\ UNCHANGED <<wizard, polls>>

Spec == Init /\ [][Next]_vars

------------------------------------------------------------------------------
(* Properties *)

\* The key in the snippet of a tier.
SnippetKey ==
  CASE wizard.tier = "gateway" -> wizard.gwKey
    [] wizard.tier = "sdk"     -> wizard.sdkKey
    [] OTHER                   -> NoKey

\* The snippet of a tier never holds a key that the route of the other tier would refuse,
\* whatever was minted on the way there and back (onboarding-wizard-client.tsx, gwKey and
\* sdkKey).
SnippetKeyIsOfItsTier ==
  SnippetKey # NoKey =>
    keys[SnippetKey].kind = IF wizard.tier = "gateway" THEN "GATEWAY" ELSE "SDK"

\* The wizard says "live" only once an agent that a poll looked for is in the fleet: it never
\* makes one up (lib/onboarding-wizard.ts, fleetHasAgent).
LiveIsOfTheFleet == Live => wizard.found \in fleet

\* What the wizard shows, keys and liveness, is so (onboarding-wizard-client.tsx).
WizardIsHonest == SnippetKeyIsOfItsTier /\ LiveIsOfTheFleet

\* The agent shown as live is in the fleet. The code does not keep this: the flag outlives
\* the agent it was set for when the user goes back and enters another
\* (onboarding-wizard-client.tsx:108).
TheAgentShownLiveIs ==
  wizard.step = "signal" /\ Live => wizard.agent \in fleet
===============================================================================
