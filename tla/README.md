# Provable, specified and checked in TLA+

Provable governs how much autonomy an AI agent has on a task. Agents report their decisions and the verdicts on
them; a readiness score is computed over the last 30 days; and a lifecycle engine keeps, for every agent x task,
the *mode* in force (OBSERVING, SHADOW, CO_PILOT, SOLO, SUSPENDED). The promise the product makes is an asymmetry:
**hard to climb, easy to fall**. A mode rises only when a human accepts an offer that the score earned over several
recomputes, or sets the mode directly; it falls automatically.

This directory models that engine, the requests that drive it, the database they run on, the evidence they score,
the producers that report it, the people and keys that may act on it, and the dashboard that shows it. Paths below are
relative to the root of the repository.

## 1. Inventory

| Component | Source | State it keeps | Operations |
|---|---|---|---|
| Lifecycle engine | `packages/core/src/lifecycle.ts`, `policy.ts` | none (pure) | `stepLifecycle`, `manualOverride`, `suspendAgent`, `resumeAgent` |
| Readiness | `packages/core/src/readiness.ts` | none (pure) | `computeReadiness` over a window of decisions |
| Ingestion | `apps/api/src/recompute.ts`, `decisionRepo`, `verdictEventRepo` | decisions, verdict events, scores, task row, transition log | `/track` of a decision or a verdict, `/register` |
| Guardrail rules | `packages/core/src/rules.ts`, `guardrailRuleRepo` | rules, enabled or not | evaluate, create, enable, disable |
| Governance routes | `apps/api/src/app.ts:400-539`, `:724-788` | task row, transition log, agent marker | approve, free-set, suspend, resume, agent-wide suspend and resume |
| Governance read-model | `apps/api/src/fleet.ts`, `packages/core/src/governance.ts` | none (reads) | `deriveGovernanceStatus` |
| Agent identity | `packages/core/src/identity.ts`, `app.ts:649-716` | agent row | provision, rename, first contact, deactivate, reactivate, retire |
| Membership and RBAC | `packages/persistence/src/membership.ts`, `app.ts:547-625` | memberships | invite, bind at first login, set role, remove |
| API keys | `apiKeyRepo`, `packages/persistence/src/auth.ts`, `app.ts:791-868` | keys by prefix, revoked or not | mint, rotate, revoke, resolve |
| Gateways | `apps/api/src/gateway.ts`, `anthropic-gateway.ts` | none | forward a call, record it best-effort |
| Connectors, adapters | `apps/api/src/connector-engine.ts`, `connector.ts`, `packages/adapters` | connector configurations | push, pull, events, dry run |
| Reset | `packages/persistence/src/reset.ts` | - | counted delete of an organisation's data |
| Pages' reads | `packages/persistence/src/read-models.ts`, `apps/api/src/views.ts` | none (reads) | registry, visibility, cost, summary, return on investment |
| Web session | `apps/web/src/lib/auth`, `app/api/auth` | session and transient cookies, memoised discovery | login, callback, sliding renewal, logout |
| Overview page | `apps/web/src/components/overview-client.tsx`, `suspend-panel.tsx`, `fleet-row.tsx` | the fleet shown, a panel | poll, open, submit |
| Agent wizard | `apps/web/src/components/onboarding-wizard-client.tsx` | step, tier, keys shown, liveness | identify, choose, mint, poll |
| Python SDK | `sdk-python` | none | register, track |
| Row-level security, SSRF guard, encryption, deployment | `packages/persistence`, `deploy`, `scripts` | - | - |

**How they interact.** Every request to the API is one database transaction (`withTenant`). An ingest stores the
event, reads all decisions of the task, computes the readiness, writes a score row, reads the task row, steps the
engine, appends the transitions and writes the task row back. The governance routes read the task row, apply one
engine function and write it back. The dashboard reads the latest score, the task row and the log, and derives a
status. No lock is taken by a read and no version is compared by a write: the isolation is PostgreSQL's READ
COMMITTED, so what two requests on one task do to each other is decided by the row locks of their UPDATEs alone.

**What is hard here.** (1) The engine is a state machine with three streaks, a baseline and a pending promotion, and
a dozen branches that reset or keep each. (2) The read-modify-write of a task row is not serialised. (3) Requests
lock rows of several tables in different orders. (4) The transition log and the task row say the same thing twice,
and readers choose between them. (5) Producers choose the time of an event, retry, and deliver late. (6) Check then
act: identity, last owner, key rotation, reset, first delivery of a reference. (7) Answers that arrive late: batches cut
off, gateway calls whose recording fails, polls and mints of a browser that has moved on. `PROJECT.json` lists each at its line
under `hazards`.

**What makes each component correct.** Engine: the asymmetry, streaks counted exactly, no offer that outlives its
mode, SUSPENDED left only by a human. Routes: the same under every interleaving, or a statement of exactly how much
of it is lost. Read-model: what it offers can be done and what it says of a parked task is true. Ingestion: a retry
changes nothing, and late or reordered events lead to the state that their times say. Readiness: a score is withheld
rather than invented; boundaries fall on the documented side. Identity: RETIRED is final. Membership: an
organisation always has an owner. Keys: a revoked key resolves nothing, a rotation leaves exactly one in its place.
Gateways and connectors: what a caller is told of its report is so, and one bad record does not hold back the others.
Reset: it deletes what it counted. Dashboard: it comes to show what is, a used session lasts, a logout ends it, and an
agent that is marked as stopped is stopped.

## 2. Modules

An arrow is EXTENDS, from the module extended; every MC module extends the last module of its row, and a proof module
extends the last module of its row, or those named beside it.

```
 Lifecycle --> TaskLifecycle --> Fleet, RecomputeHistory --> MCTaskLifecycle
     |             |                    TaskLifecycleProofs (of all three)
     |             +-- INSTANCE ... WITH --> Autonomy  (abstract specification)
     +-------> TaskTransactions --> MCTaskTransactions     TransactionsProofs

 Ingestion ---------------> MCIngestion      IngestionProofs
     +-- INSTANCE ... WITH --> Ledger  (abstract specification)
 Readiness --> Evidence --> MCEvidence       EvidenceProofs
 Access ------------------> MCAccess         AccessProofs
 Keys -----> Onboarding --> MCOnboarding     OnboardingProofs
 Gateways -> Connectors --> MCConnectors     ConnectorsProofs
 Sessions -> Dashboard ---> MCDashboard      DashboardProofs
```

The families meet where one's input is another's output, and each takes the other's as any value it may have: the reading
of a recompute in `TaskLifecycle` is any that `Readiness` can give, the calls of `Ingestion` are what `Gateways` and
`Connectors` report, and the fleet of `Dashboard` is what `TaskLifecycle` and `TaskTransactions` make of it.

**`Lifecycle`** translates `packages/core/src/lifecycle.ts`. One operator per numbered step of `stepLifecycle`
(`GuardrailStep`, `DriftStep`, `ManualStep`, `ObservingStep`, `SuspendedStep`, `SignalLossStep`, `RegressionStep`,
`PendingStep`, `ReadyStep`), their precedence in `StepLifecycle`, and `ManualOverride`, `SuspendAgent`,
`ResumeAgent`. A state is the record the code persists: mode, the streaks `ready` (`consecutivePromotionReady`),
`subFloor` and `insufficient`, the pending promotion and `lastImpliedRank`. A step returns the next state and the
transition it emits; a SUPERSEDED record emitted before it is a flag of the result. The readiness result is reduced to
the two things the engine reads: the implied rank (0 when the score is withheld) and the resolved count. The four
policy numbers are constants.

**`TaskLifecycle`** is one agent x task under the requests that move it, one at a time: `Recompute` (any readiness,
any agent or platform signal), `Approve`, `FreeSetMode`, `Suspend`, `Resume`. Variables: `task` (the lifecycle columns
of the task row), `score` (the score row with the latest time), `log` (the last transition and the last that set a
mode: all that any reader uses). A human's APPROVE arrives only by `Approve`, since `/track` strips manual signals
and no route sends a REJECT. Who answers for a transition, the `approver` and `actor` columns, is kept as `authority`.

**`Autonomy`** is what the product promises, without scores, streaks or counters: a mode, an offer, and who set the
mode. `TaskLifecycle` implements it under the mapping at the end of that module.

**`RecomputeHistory`** adds a history variable: what each of the last recomputes said of the mode it found. The
engine's promotions and demotions are compared with it, not with the engine's own counters.

**`Fleet`** is the read-model: `Status`, `ActionAvailable`, `Headroom`, `SuspendTrigger` as functions of the state of
`TaskLifecycle`. It writes nothing.

**`TaskTransactions`** runs the requests as concurrent transactions over the tasks of one agent, one action per
statement that matters: `Begin` (and the listing of a fan-out), `Contact` (`markActiveOnFirstContact`), `Ensure`
(`taskRepo.ensure`), `Read`, `Write`, `Mark` (the agent-wide marker), `Commit`. `lock` says who holds a row. A
statement that needs a row another transaction has written waits; `AbortVictim` is the database breaking a deadlock;
`Fail` is any other rollback: a crash, a broken connection, the transaction timeout, an exception, a unique violation.
Inserted rows (decision, score, transition) are left out: their foreign keys take KEY SHARE locks, which do not
conflict with the updates modelled here. Two verdicts on the same decision also serialise on the decision row; the
model has verdicts on different decisions, the weaker case. The agent exists already; a task need not.

**`Ingestion`** is what stands before the engine: the calls of producers to `/track` as transactions over the decisions,
the log of verdict events and the guardrail rules. A *delivery* is one request; the same call may be delivered any
number of times, late, twice at once, or fail half-way. Actions are the statements of `recompute`: `Begin` (the time of
the event, `body.at ?? now`), `Find` (`findByExternalRef`, in `createIfAbsent` or before a verdict), `Insert`
(`decisionRepo.create`), `AppendEvent` (`createMany` with `skipDuplicates`), `Load` and `Update` (the rest of
`verdictEventRepo.apply`), `Judge` (`listEnabled`, `evaluateGuardrails`), `Commit`, `Fail`; and `SetEnabled` for the
routes that create, enable and disable rules (a rule not yet created is one that was never enabled). `decisions` has a
row per external reference: verdict, outcome and the materialised status. `events` has the unique keys of the log.
`steps` counts the score rows and engine steps each decision or event has led to; which step that is, is the business of
`TaskLifecycle`, and what happens to the task row under concurrency that of `TaskTransactions`. `tx` holds what a
transaction has read and written; `steady` in it is a history of the rules enabled since it began. A transaction holds
the row it has written and the key it has appended until it ends; the unique index makes the second of two inserts
fail, and the second of two appends skip. The decisions are of one agent and task.

**`Ledger`** is what recording promises to the producers: their reports are entered one at a time, each as a whole. A decision
is entered once, a verdict changes the columns that it gives and leaves the others, and what is new advances the lifecycle
once. `Ingestion` implements it at its commits, under the mapping at the end of that module. The status column
is not in it: that one is not kept as if reports came one at a time (`StatusLagsOnlyByOverlap`).

**`Readiness`** is `computeReadiness` on a set of decisions: the window, the four rates, the reasons to withhold a score,
the weights and the bands. Rates are exact ratios and the score is compared without rounding, so a band begins exactly
at its threshold.

**`Evidence`** runs it inside the ingests of one agent's decisions. An ingest is a transaction in two steps: what it reads
and writes of the decisions (`Track`, `Judge`), and its commit with the score row, at the time of its *event*, which the
producer gives. `newest` is the score row the dashboard reads, that with the latest time; `missed` is a history of whether
an ingest was stamped earlier than one already scored or overlapped another of its task. The rest are the reads of the
pages: `Registry`, `VisibilityPage`, `CostOf`, `Summary`, `Roi`, and the identity that each of three pages derives for itself.

**`Access`** is the administration of an organisation. A request is authorised in one transaction
(`requireInternalPermission`), reads in another and writes at the end of it; `request[s].step` says where it is. Members
(`Invite`, `ReadMember`/`WriteMember` for a role change or a removal, `FindBound`, `FindInvite`, `Bind` for a first
login), agents (`ReadAgent`, `WriteAgent`, and `Register`, `Contact` for what producers cause), and the reset
(`CountAll`, then one delete with its tripwire per table). `unguarded`, `demoted` and `late` are histories of what happened
between a check and its write.

**`Keys`** is the API keys: `Call` a route, `Find` what its revoking UPDATE saw, `Commit`; an answer may be lost
(`delivered`). `Admit` and `Land` are a producer's call under a key, which is resolved once, before the call's own
transaction. **`Onboarding`** is the agent wizard over it, in one tab: its step, tier and keys, the mint in flight, and
the fleet polls it starts, whose answers come in any order (`PollAnswered`). While a mint is in flight the wizard may go
back and choose another tier or agent.

**`Gateways`** is the two proxies. A call is asked, refused or answered, whole or as a stream of events that is cut into
chunks anywhere (`Event`, `Rest`, `End`); the usage of Anthropic's streams is reduced event by event
(`ReduceSseUsage`), a model is priced by its longest prefix in the table (`Entries`), recording is best-effort
(`Record`), and the header says what came of it (`AnswerOf`). **`Connectors`** adds the sources that report in batches: a
batch is mapped, then each record is reported in a transaction of its own (`ReportRecord`) which may fail, or fail for
good; `Restart` of the API cuts a delivery off, and the source delivers it again. The routes differ in what stops them: the
stored connectors go on past a bad record, the events connector refuses the batch at the first it cannot map, the SDK posts
once.

**`Sessions`** is a browser's session: the transient cookies of a login, shared by its tabs (`Start`, `Callback`), the
cookie that slides when it is used late in its life (`Navigate`, `Arrive`), the discovery of the issuer that the web process
memoises, failures included (`Discovered`), `Logout` and `RestartWeb`. **`Dashboard`** is the overview in it: `Poll` asks and
`Show` is told, `Open` and `Submit` work from the fleet shown, `Reach` is the request's effect at the API, by then on another
fleet perhaps. `released` is a history of the tasks begun or resumed since the agent was stopped.

**The proof modules** hold theorems, lemmas and the inductive invariants: `TaskLifecycleProofs`, `TransactionsProofs`,
`IngestionProofs`, `EvidenceProofs`, `AccessProofs`, `OnboardingProofs`, `ConnectorsProofs`, `DashboardProofs`. One per family.

## 3. Runs

| Run | Module | Checks | Instance |
|---|---|---|---|
| `task_lifecycle` | `MCTaskLifecycle` | 4 invariants, 5 action properties, the refinement | about 11,800 states |
| `task_transactions` | `MCTaskTransactions` | 2 invariants, 2 action properties, 1 liveness | about 196,000 states |
| `ingestion` | `MCIngestion` | 1 invariant, 3 action properties, the refinement | about 973,000 states |
| `evidence` | `MCEvidence` | 4 invariants | about 76,000 states |
| `access` | `MCAccess` | 2 invariants, 2 action properties | about 277,000 states |
| `onboarding` | `MCOnboarding` | 3 invariants, 1 action property | about 1,247,000 states |
| `connectors` | `MCConnectors` | 3 invariants, 1 action property, 1 liveness | about 162,000 states |
| `dashboard` | `MCDashboard` | 2 invariants, 1 liveness | about 615,000 states |
| `engine_never_resumes` | `MCTaskTransactions` | violated: see section 5 | |
| `replays_are_silent` | `MCIngestion` | violated | |
| `an_owner_remains` | `MCAccess` | violated | |
| `logout_ends_session` | `MCDashboard` | violated | |

**`task_lifecycle`.** The policy is the code's (hysteresis 3, score-drop 2, signal-loss 2), except that
OBSERVING ends at 2 resolved decisions instead of 10; `MaxResolved = 2` puts readings on both sides. Every implied
band, signal combination and target is an input, and the streaks are bounded by the policy, so nothing else is cut:
the run explores every reachable state of the task. `RecomputeHistory` remembers as many recomputes as the longest
streak asks for. What the run shows:

- `OnlyHumansRaise`, `EngineFallsOneBand`, `SuspendedIsASink`: the asymmetry, over every sequence
  of requests. `ImplementsAutonomy`: nothing but that.
- `OffersAreSustained`, and of `HistoryIsActedOn` the part `SustainedIsOffered`: an offer is made when, and as soon as,
  the last 3 recomputes implied it; and an offer ends with a row of the log, but where a sub-floor recompute drops it.
- `DemotionsAreConfirmed`, `LossIsActedOn` and `DeclineSeenIsActedOn` (both of `HistoryIsActedOn`): the grace of a demotion is
  exact, for a lost signal and for a decline from a score that supported the mode. Of other declines see item 6 of section 5.
- `PendingIsLive`: an offer that an approval would act on is the next band up from the mode in force, and the log's last word.
- `AuditAccountsForMode`: the log accounts for the mode. `FleetIsHonest`: the dashboard tells the truth about offers
  (`OffersAreShown`), parked tasks (`SuspendCauseIsHonest`) and observe-only tasks (`ObservingIsObserveOnly`): a task shown OBSERVING was
  never governed or was resumed by a human, and none is in OBSERVING under another status (see item 10 of section 5).
  The offers it speaks of are those the task row holds; an offer that only the log still announces is item 5.

**`task_transactions`.** Two sessions, two tasks, two requests; thresholds 1, so that each decision of the
engine takes one ingest; each task starts absent, with an announced offer, at SOLO, or parked; the agent starts
DISCOVERED or ACTIVE. Two sessions make every pairwise race and every lock cycle of length two; two tasks are the
fewest with a lock order. `MaxRequests = 2` lets both requests interleave freely; deadlock checking is off because the
model stops after them. What it shows:

- `RowsAreWhole`: interleaved requests leave a row that some request wrote as a whole.
- `OnlyStaleRequestsUndoASuspension`: how far the lost update goes. A parked task is let go only by a resume, or by a
  request that had read the task before it was parked; never by one that began to look at it afterwards.
- `DeadlockNeedsFirstContact`: the agent-wide kill-switches and single-task requests never deadlock among themselves.
  The one deadlock there is needs a DISCOVERED agent that already has tasks (registered with a task key) and its
  first decision during an agent-wide kill-switch; one of the two is then aborted and answered 500.
- `AgentWideSuspendParksAll`: a fan-out that succeeds parks every task it listed.
- `EveryRequestIsAnswered`: no wait is for ever.

**`ingestion`.** Two sessions, four deliveries, five calls: a pending decision with a reference, one without
(whose agent reports a trip itself), a verdict, a later verdict that withdraws it, and an outcome that leaves its time to
the server; a rule about a verdict and one about a verdict and an outcome together, each enabled or not at the start. One
reference is enough, since calls on different decisions share nothing here but the rules; four deliveries are a decision, two
verdicts on it and a replay; the clock may stand still between deliveries. What it shows:

- `SteppedExactlyOnce`: whatever is delivered, each decision and event in the database has advanced the engine once.
- `SilentChangesAreReplays`: a row changes without a recompute only by an event that is already in the log.
- `NothingNewIsUnjudged`: the rules see the row that is committed, so two calls that violate a rule only together do not
  slip through; a rule that is switched meanwhile may be seen either way.
- `StatusLagsOnlyByOverlap`: the status column disagrees with the verdict and the outcome beside it only after two
  verdicts on one decision overlapped. This does happen (a withdrawn verdict meeting an outcome); the
  fleet summary's resolved counts (`read-models.ts:217`) read the column, the score does not.
- `ImplementsLedger`: however requests overlap, verdicts and outcomes are what their reports would have made one at a time,
  in the order of their commits; of two verdicts on one decision neither is lost in the other.

**`evidence`.** Three decisions over two tasks, two ingests at a time and three in all, a window of one day and times on
three, so that an event lies inside, on either end and outside. Five reports and three judgements give every verdict, with and without an outcome, a confidence and a
cost, so that each rate may lack its evidence alone; two decisions make a rate that is neither 0 nor 1. Symmetry over sessions,
decisions and tasks is sound: no property names one. What it shows:

- `EveryRateIsMeasured`: a score rests on evidence for each of its rates, and never on the 0 of an empty division; it is
  a percentage.
- `OverridesNeverFlatter`: a human's correction never raises the score, and an outcome rescued by a human does not.
- `PagesAgree`: registry, visibility, cost and summary count the same decisions, and the labels of three pages agree.
- `ShownMissesOnlyLateOrOverlapping`: the score shown is that of all decisions of the task at its latest event, unless the
  last ingest was stamped earlier than one already scored or overlapped another. That both happen is a consequence of
  scoring at the event's time without a lock; the next ingest in order repairs it.

**`access`.** Two people with two addresses, one agent, two requests at a time and three in all; it starts with two
owners, with an owner and an invitation, or with an owner alone. Two owners are the fewest that can remove each other; three
requests are a change, and two that were authorised before it. What it shows:

- `OwnersGoOnlyUnguarded`: the last owner goes only by a count that another request made stale, or by an invitation.
- `AuthorityIsRecent`: who acts has the permission, or lost it after the request was authorised.
- `AdminDecisionStands`: no report of a producer ends a deactivation or a retirement, and of requests on identity only one
  that had read the agent before it was retired.
- `ResetIsExactButForLateIngests`: a reset that commits has deleted the decisions that it counted, and those of ingests
  that committed while it ran.

**`onboarding`.** Two agents, two key requests (minting, rotating one, rotating all or revoking) that overlap, one
producer's call, the wizard. Two requests are what it takes for one to revoke what the other has just minted. What it shows:

- `RotationNeverLocksOut`: however rotations overlap and whichever answers are lost, a machine key that works remains,
  unless one was revoked by name.
- `RotationIsExact`: what was active when "rotate all" was called is dead when it answers; a rotation of a key that was
  already dead leaves a new key, which nobody holds.
- `DeadKeysOnlyFinish`: a call goes on under a dead key only if it was admitted while the key lived.
- `WizardIsHonest`: the key in a snippet is of the snippet's tier, and "live" is said of an agent in the fleet, in
  whatever order mints and polls answer.

**`connectors`.** One gateway call and one source, whose batch is one of four: a good record after one that cannot be
mapped; a record that the database refuses, with one that carries no verdict after it; a good batch; one report without a
verdict or a reference. The source's references include the call's, so they collide. One restart of the API, two copies of
what has no reference, and at most two output tokens, which is a first and a corrected count. Deadlock checking is off,
because the model stops when the call and the batch are done. What it shows:

- `FirstReportStands`: what is recorded of a reference is changed by no later report, and repeated by none of its own
  source's. What becomes of another source's report under the same reference is item 9 of section 5: it is dropped.
- `SummariesAnswerForAll`: a record that a summary does not list among its errors is recorded.
- `HeadersAreHonest`: of the OpenAI gateway, "recorded" is said only of a call whose reference is in the record; and an
  error, "upstream-error-not-recorded" or a stream's "no capture" only of one that left no decision. The header
  "recorded-no-usage" is not in it: nothing is recorded then, which is item 8 of section 5.
- `CostsAreWhatWasSaid`: tokens and price are those the upstream said last, however the stream was cut.
- `GoodRecordsGetThrough`: a source that delivers again gets every good record in, past bad ones, failures and restarts.

**`dashboard`.** One tab, a session of two units that is renewed at one, two tasks (one with an offer, one parked), one
answer in flight, two changes of the fleet and one failure. One tab with an answer in flight is enough for a stale
screen, since what a tab acts on meets the changes made by others; what tabs share is the cookie. What it shows:

- `UsedSessionsLast`: a session does not run out on a person who opens a page within the threshold.
- `MarkedAgentIsStopped`: the marker of an agent-wide stop is true of every task, but those begun or resumed since.
- `ScreenCatchesUp`: however answers are ordered and lost, the screen comes to show the fleet once that has settled.

**Fairness.** `TaskTransactions`: weak fairness of the next statement of each open request, including the grant of a
released lock and the detection of a deadlock (`deadlock_timeout` in PostgreSQL). Nothing makes a request begin or fail.
`Connectors`: weak fairness of a source's redelivery (the webhook and pull of a source are retried by whoever owns it:
this is an assumption on the environment) and of the loop over a delivered batch; strong fairness of a record being
reported, that is, the database does not refuse the same record at every attempt. Nothing restarts the API for ever:
`MaxRestarts` bounds it. `Dashboard`: weak fairness of the poll, which an interval makes every 4 seconds
(`overview-client.tsx`), and of each answer and page in flight; an answer may be an error, `MaxFaults` times. The other
modules state no fairness and no liveness: nothing in the code schedules a recompute, makes a producer repeat a call that
was lost, or an administrator act.

## 4. Proofs

All theorems are of the specifications as they are, for every value of the constants under the assumption named in the module,
which TLC evaluates in the runs. The type invariant of each module is part of its inductive invariant. Every invariant and
every action property that a passing run checks is proved; section 3 shows them on small instances, this section for all.

**`TaskLifecycleProofs`**, for any four positive thresholds and any bound on resolved counts: `TypeCorrect`,
`AuditTrail`, `OfferIsLive` (the first two invariants of the run), `Altitude` and `Streaks` (`AltitudeIsGranted` and
`StreaksAreExclusive`, which are parts of the argument, so that they are proved and no run states them);
`OnlyHumansRaiseTheMode`, `EngineFallsAreBounded`, `ParkedUntilResumed` (the action properties); `Implementation`, which is
`Spec => Abstract!Spec`, the refinement of `Autonomy`. A threshold of zero is excluded by `PolicyAssumption`: with it the first
signal-loss recompute would still demote, but a streak would no longer be below its threshold.

The inductive invariant `IInv` is the conjunction of these invariants, the types and `NeverRetired`. None is
inductive alone: that an accepted offer raises the mode by one band needs `PendingIsLive`; that a fall of the engine
does not leave a task above SHADOW on the engine's word needs `AltitudeIsGranted` with the row that set the mode
(`AuditAccountsForMode`); the streak that a branch extends is below its threshold only by `StreaksAreExclusive`. The
proof first gives every request one of a few *shapes* (`Holds`, `Offers`, `EngineFalls`, `EngineEnters`, `Accepts`,
`ActorSets`), with one lemma per step of the engine and one per route; then shows that each shape keeps `IInv`; then
derives the action properties and the refinement from the same shapes, each of which is one action of `Autonomy` or a
stutter.

*The read-model.* `LogInv` adds to `IInv` what a reader of the log relies on: if the last row sets a mode, it is the row
that set it, a row that parks names its cause, and only a resume's row leads to OBSERVING. `TheFleetIsHonest` follows by the
same shapes.

*The history.* `SuccessionsAreActedOn`, `OffersAreEarned` and `FallsAreConfirmed` are theorems of `HistorySpec`. The engine has
counters and the properties speak of what recomputes said, so the invariant (`CountersInv`) relates the two: each counter
is the length of a run at the end of the memory, and no run there is longer than its counter. `DeclineInv` does the same for the
regression baseline: after a score that supported the mode it is as high as the mode, and the sub-floor counter counts from there. `RunGoesOn` and `RunComesFrom`
are the two directions in which one more recompute extends a run; three more shapes (`Counts`, `Lowers`, `Breaks`) say
what each step of the engine does to the counters.

**`TransactionsProofs`**, for any number of sessions, any finite set of tasks, any starting rows that the lifecycle can leave and
any ingests: `RowsStayWhole`, `ParkedUntilResumedOrRaced`, `SuspendAllParksWhatItListed`, `DeadlocksNeedFirstContact`. The
invariant is of one session at a time (`SessionInv`): at each statement it says which of the listed tasks are done, which of
them it has read and what it has written of each, which locks it holds, and that what it has still to take comes after what
it has taken, in key order. A deadlock is then impossible by an order on what is waited for: of the sessions that wait in a
circle take the one whose task has the fewest tasks after it; who holds that task waits for one with fewer. A first contact is
the exception, since it takes the agent's row before a task, and the fan-outs take it after theirs. The set of tasks must be
finite (`TransactionAssumption`): with no last task there need be no such session.

**`IngestionProofs`**, for any number of sessions, any calls, any rules and any bound on deliveries:
`IngestionTypeCorrect`, `ExactlyOnce`, `SilenceIsReplay`, `Judgement`, `StatusLag`, and `RecordsLikeALedger`, which is
`Spec => Abstract!Spec`, the refinement of `Ledger`. Since a transaction changes the tables only
by its commit, `IInv` says of each transaction in flight what it has done by the statement it is at (`Staged`), what the rules
have said of it (`Sentenced`), and of each two that they hold no row and no key in common (`Exclusive`). `Quiet` shows once
that a step which leaves the tables alone keeps the invariant; one lemma per statement then has only its own transaction to
look at. For `Commit`, `CommitSpares` is the heart: a commit never touches what another transaction has read and holds,
so a decision that was absent when it was inserted, and a key that was not in the log when it was appended, still
are when they are committed. For the refinement every step but a commit stutters, and `CommitSays` gives a commit that changes
the tables one of two forms: a new decision, which is an `Enter`, or a verdict on a row that is there, which is an `Amend`: what
was written was computed from the row of an earlier read, and still comes to the columns given laid over the row as it is.

**`EvidenceProofs`**, for any decisions, finite set of tasks, window, times, reports and judgements, and any number of
overlapping ingests: `ShownScoreIsCurrent`, `RatesAreMeasured`, `CorrectionsNeverFlatter`, `PagesReconcile`, from the inductive invariant
`EvidenceIsSound`. Its parts are: the table is a finite set of rows with one row per id (`Table`); an ingest in
flight is the only one of its decision and, unless another of its task has committed since it read, carries the readiness that
its own commit will leave (`InFlightSound`); and the property of the score shown itself. Three families of lemmas carry the rest:

- *Sums over finite sets.* `FiniteInduction` is induction over a finite set by a least counterexample
  (`WFMin` of the library, and the cardinality of subsets), for a set of good subsets in the place of a predicate. From it: a
  sum exists and is a natural (`SumFunction` of the community modules unfolds one element at a time), is monotonic, and is
  the sum over the parts of a partition (`PartsAddUp`), which is what the reconciliation of four pages comes to.
- *Ratios.* Rates are pairs of numerator and denominator, compared by cross-multiplying; a rate in 0..1 stays there, and the
  weighted score in 0..100.
- *Swapping one decision* for another of the same window: which class it leaves and enters, hence by how much each numerator
  and denominator changes. `OverridesNeverFlatter` is the sum of these.

`EvidenceAssumption` requires the set of tasks to be finite: the pages add up over all of them.

**`AccessProofs`**, for any people, addresses, agents, starting memberships that have an owner (`AccessAssumption`), and any
number of overlapping requests: `OwnersGoByStaleCounts`, `AuthorityHolds`, `DecisionsStand`, `ResetsAreExact`. A request that has
counted owners and was not overtaken since knows how many there are (`CountStands`); `Bind` never touches a row that has a
subject, so it takes no role away (`SameRole`). The reset's invariant (`ResetInv`) says, table by table, which rows are
gone and that what is left beyond the count is late.

**`OnboardingProofs`**, for any number of sessions and agents and any bounds: `RotationsLeaveAKey`, `DeadKeysAdmitNothing`,
`RotationsAreExact`, `TheWizardIsHonest`. The key that a request may mint does not exist before, is known to nobody and is shared
with no other request (`Fresh`); what a request has found is still there, or was revoked by another (`Staged`). A
rotation therefore never revokes its own key nor one in flight, so there is one left after each commit. The wizard's keys
exist and are of their kind (`WizardInv`), which nothing later takes from a key. `OnboardingAssumption` says that
the value of "no mint in flight" is no session.

**`ConnectorsProofs`**, for any calls, sources, batches, prices and bounds: `FirstReportsStand`, `HeadersHold`,
`SummariesHold`, `CostsHold`, and `ReferencesAreUnique`, which says what the code does of references: one decision for each, of
whatever source (`FirstReportStands` claims it within a source, as the documents do). `CallInv` says what a call has recorded at each point of its life; `SourceInv` says that each record
before the delivery's place is answered for (`AnsweredIn`). A source's batch is the same from its first delivery on, so what an
earlier delivery recorded, before it was cut off, answers for the record that comes again. `CostsHold` adds an invariant
of its own (`MeterInv`): between events what the gateway has heard of a stream is what was said, and of an event that has come in
part the rest makes the difference. The other half is of the table: the gateway's three-step lookup ends at a longest family
of the model, and fails only where it has none (`EntriesAreLongest`), for any table whose names are sequences of
segments (`GatewaysAssumption`); the names need not even be finitely many.

**`DashboardProofs`**, for any lifetime, threshold, tabs, tasks and starting fleet: `SessionsLast`, `StopHolds`. Both
are inductive with the types alone, because each step keeps a balance: a unit of time takes from the cookie what it adds to
`idle`, and a page that clears `idle` finds more than the threshold left or has a renewed cookie on its way; and a task
leaves SUSPENDED only into `released`, whatever screen the request came from.

**Only model-checked.** The three liveness properties, `EveryRequestIsAnswered`, `GoodRecordsGetThrough` and `ScreenCatchesUp`:
the proof system has no rule for fairness and ENABLED here. That `EveryRequestIsAnswered` cannot fail for want of an order
of locks is in part `DeadlocksNeedFirstContact`; that the database then breaks the one deadlock there is, is its fairness. And
the four properties of section 5 that a run refutes.

**Forms chosen for the proofs.** The sums of `Readiness` and `Evidence` are `SumFunction` of the community modules over a function on the
rows, and the order of a fan-out (`Listed`) is a condition on the sequences of its tasks, so that no module that
is proved about declares a recursive operator.

## 5. Where the code and its documents disagree

With a run that shows it:

1. *The engine can let a parked task go* (`engine_never_resumes`). A recompute that read the task before a kill-switch
   committed writes the old mode back after it. `lifecycle.ts:632-633` says the engine never resumes.
2. *A replay can undo a later verdict* (`replays_are_silent`). An event that is delivered again after a later one puts the
   decision back, silently (`repositories.ts:625`). `idempotency-materialization.test.ts:16` says "a replayed event is a
   single effect".
3. *An invitation can demote the last owner* (`an_owner_remains`). `membershipRepo.invite` is an upsert
   (`membership.ts:82`) without the guard; `app.ts:593` says "never demote the final OWNER".
4. *A logout can fail to log out* (`logout_ends_session`). The cookie is cleared after the issuer's discovery was awaited,
   whose failure is memoised (`logout/route.ts:21`, `discovery.ts:33-36,120`); `logout/route.ts:6` says "Always clear the
   local session cookie".

Without a run of its own. The definition named stands in the module, states what the document says, and TLC finds it violated when
it is added to the cfg of the module's passing run:

5. *An offer can be shown that is gone* (`ActionAvailableIsApprovable` in `Fleet`). A first sub-floor recompute drops the pending
   promotion without a SUPERSEDED row (`lifecycle.ts:405`), and the read-model takes the last row of the log for the live
   offer (`fleet.ts:37`): the dashboard shows PROMOTABLE with an action, at the next good score or at once if the
   recompute was backdated, and approving answers 409. `packages/contracts/src/governance.ts:30` says "true ONLY for a live,
   valid promotion".
6. *A low score can stay unanswered* (`DeclineIsActedOn` in `RecomputeHistory`). A regression needs a fresh decline against the baseline
   (`lifecycle.ts:387`), so after one confirmed demotion, or where there was no baseline, a score that lies below the mode is
   never acted on. `policy.ts:27-28` promises a demotion on consecutive sub-floor recomputes; only modes set by
   override are excepted elsewhere.
7. *A retry can count twice* (`RepeatsAdvanceOnce` in `Ingestion`). A verdict without a time gets the server's at each delivery
   (`recompute.ts:133`), which is part of the event's key: a retry is a new event, with a score row and a step of the
   lifecycle of its own. `PROVABLE_CORE_ARCHITECTURE.md:64` says "must never double-count", `recompute.ts:201` "no lifecycle
   advance".
8. *"recorded-no-usage" is sent when nothing is recorded* (`RecordedMeansRecorded` in `Gateways`). A 200 that is not JSON is returned with it
   before any recording (`gateway.ts:98`), though the header is to "surface the outcome" (`gateway.ts:122-123`); the Anthropic
   gateway has the same header beside the comment "record nothing" (`anthropic-gateway.ts:161-162`), and says "recorded"
   whether or not its recording succeeded (`anthropic-gateway.ts:166-167`).
9. *References are shared between sources* (`DedupIsBySource` in `Connectors`). A decision is looked up by its reference alone
   (`repositories.ts:558`, `schema.prisma:295`): of two sources that use one reference the second is dropped and counted as
   ingested. `packages/contracts/src/decision.ts:27` and `PROVABLE_CORE_ARCHITECTURE.md:63` say "(source, externalRef) is the
   dedup key".

Smaller ones (TLC refutes `HeadroomIsNextBand`, `FirstLoginIsIdempotent`, `TheAgentShownLiveIs` and `GovernedAreScored` likewise):

10. `packages/core/src/governance.ts:15-16,62-63` speak of a signal-loss or drift demotion that lands in OBSERVING and is shown
    DEGRADED, and `packages/core/test/governance.test.ts:54-63` tests that input. The engine never produces it: every
    automatic demotion ends at SHADOW or above, or at SUSPENDED. `ObservingIsObserveOnly` says so, and is checked and proved; the
    read-model's branch for it (`governance.ts:67`) is modelled and is never taken.
11. `HeadroomIsNextBand` (`Fleet`): `headroomTo` is the implied band (`packages/core/src/governance.ts:87`), not the "next band
    up" of `packages/contracts/src/governance.ts:29`.
12. `FirstLoginIsIdempotent` (`Access`): of two first logins of one person the second finds the invitation claimed, by itself,
    and is answered as having no role (`membership.ts:52-53`); `membership.ts:36-37` says idempotent under that race.
13. `TheAgentShownLiveIs` (`Onboarding`): the wizard's "live" outlives the agent it was found for, when the user goes back and
    enters another (`onboarding-wizard-client.tsx:47,108`).
14. `GovernedAreScored` (`Connectors`): a record counted as governed is "scored" (`connector-engine.ts:69`), but where another
    source reported its reference first without a verdict, it is not.
15. The agents page is "reachable only with manage_agents (or activate_deactivate)" (`app/admin/agents/page.tsx:16-17`), but
    the list it shows needs `manage_agents` (`app.ts:633`): an approver is let in and refused the list.
16. `overview-client.tsx:52` promises "REAL counts or honest empty"; `app/api/overview/route.ts:48-49` answers an empty
    fleet with 200 to whoever is signed out, which the page cannot tell from a fleet with no tasks.

## 6. Not modelled

- Row-level security: the models are of one organisation. SSRF guard and secret encryption: checks and a library call on
  one value, no state.
- Provisioning, deployment and scripts, but for the reset: run by an operator outside the service.
- Rendering, and the pages that load once and show what they are given; the local and Clerk login providers.
- Connectors: the dry-run routes (they write nothing) and the CRUD of configurations (one row, read once per delivery); the
  mappers of vendors other than Anthropic, which differ in field names.
- Renaming an agent and the labels of the list of transitions, which change words only.
- Rounding of the weighted sum in floating point, where it falls exactly on a threshold; rows of the log with one and the
  same millisecond, whose order the code leaves to the database.
