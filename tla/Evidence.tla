------------------------------- MODULE Evidence -------------------------------
(***************************************************************************)
(* The decisions of one agent as evidence: what each ingest computes from  *)
(* them and stores as a score row (apps/api/src/recompute.ts over          *)
(* packages/persistence/src/recompute-ports.ts), and what the pages of the *)
(* dashboard read from the same rows (packages/persistence/src/            *)
(* read-models.ts, apps/api/src/views.ts).                                 *)
(*                                                                         *)
(* An ingest is a transaction that reads only what has been committed and  *)
(* its own write. It computes readiness at the time of its EVENT, which    *)
(* the producer gives: events come in any order. Two ingests of one        *)
(* decision exclude each other (Ingestion has that race).                  *)
(***************************************************************************)
EXTENDS Readiness

CONSTANTS
  Sessions,   \* ingests in flight at a time
  Ids,        \* decisions
  Tasks,      \* the tasks of the agent
  Times,      \* the times of events and of readings, in days
  Reports,    \* what a decision may say: [verdict, outcome, confidence, source, usd]
  Judgements, \* what a verdict event may say: [verdict, outcome]
  MaxIngests  \* bound: the number of ingests begun

NoUsd == -1
NoTime == -1
Sources == {"sdk", "gateway"}
ReportType ==
  [verdict : Verdicts, outcome : Outcomes \cup {Absent},
   confidence : {NoConfidence} \cup 0..10, source : Sources, usd : {NoUsd} \cup Nat]

ASSUME EvidenceAssumption ==
  /\ WindowDays \in Nat
  /\ Times \subseteq Nat
  /\ Reports \subseteq ReportType
  /\ Judgements \subseteq
       [verdict : Verdicts \cup {Absent}, outcome : Outcomes \cup {Absent}]
  /\ MaxIngests \in Nat
  /\ IsFiniteSet(Tasks)

VARIABLES
  decisions,  \* the committed decisions
  newest,     \* of each task, the score rows with the latest time
  missed,     \* history: whether the newest score of a task may lack evidence
  tx,         \* the ingest of each session
  begun       \* the number of ingests begun

vars == <<decisions, newest, missed, tx, begun>>

NoTx == [open |-> FALSE]
NoRows == [at |-> NoTime, results |-> {}]

TypeOK ==
  /\ \A d \in decisions : d.id \in Ids /\ d.task \in Tasks /\ d.at \in Times
  /\ \A d, e \in decisions : d.id = e.id => d = e
  /\ DOMAIN newest = Tasks
  /\ \A t \in Tasks : newest[t].at \in Times \cup {NoTime}
  /\ missed \in [Tasks -> BOOLEAN]
  /\ DOMAIN tx = Sessions
  /\ begun \in 0..MaxIngests

Init ==
  /\ decisions = {}
  /\ newest = [t \in Tasks |-> NoRows]
  /\ missed = [t \in Tasks |-> FALSE]
  /\ tx = [s \in Sessions |-> NoTx]
  /\ begun = 0

------------------------------------------------------------------------------
(* Ingests *)

OfTask(ds, t) == {d \in ds : d.task = t}
Without(ds, id) == {d \in ds : d.id # id}
InFlight(id) == \E s \in Sessions : tx[s].open /\ tx[s].write.id = id

\* Mutant: the readiness is read before the event is persisted.
ReadFirst(s, d, at) ==
  /\ ~tx[s].open
  /\ begun < MaxIngests
  /\ begun' = begun + 1
  /\ tx' = [tx EXCEPT ![s] =
       [open |-> TRUE, write |-> d, at |-> at, overtaken |-> FALSE,
        result |-> ComputeReadiness(OfTask(decisions, d.task), at)]]

\* The ingest persists its event and computes readiness as of the event's time.
Read(s, d, at) ==
  /\ ~tx[s].open
  /\ begun < MaxIngests
  /\ begun' = begun + 1
  /\ tx' = [tx EXCEPT ![s] =
       [open |-> TRUE, write |-> d, at |-> at, overtaken |-> FALSE,
        result |-> ComputeReadiness(OfTask(Without(decisions, d.id) \cup {d}, d.task), at)]]

\* A decision is reported for the first time.
Track(s, id, t, report, at) ==
  /\ \A d \in decisions : d.id # id
  /\ ~InFlight(id)
  /\ Read(s, [id |-> id, task |-> t, at |-> at, verdict |-> report.verdict,
              outcome |-> report.outcome, confidence |-> report.confidence,
              source |-> report.source, usd |-> report.usd], at)
  /\ UNCHANGED <<decisions, newest, missed>>

\* A verdict event writes what it gives over the decision's row.
Judge(s, d, j, at) ==
  /\ ~InFlight(d.id)
  /\ Read(s, [d EXCEPT !.verdict = IF j.verdict = Absent THEN @ ELSE j.verdict,
                       !.outcome = IF j.outcome = Absent THEN @ ELSE j.outcome], at)
  /\ UNCHANGED <<decisions, newest, missed>>

\* The rows that a reader who orders by calculatedAt may find last: rows of one time
\* come in any order.
AddScore(rows, at, result) ==
  CASE at > rows.at -> [at |-> at, results |-> {result}]
    [] at = rows.at -> [rows EXCEPT !.results = @ \cup {result}]
    [] at < rows.at -> rows

\* The ingest commits its event and its score row together. The other ingests of the
\* task that are in flight have not seen the event.
Commit(s) ==
  LET t == tx[s].write.task
  IN /\ tx[s].open
     /\ decisions' = Without(decisions, tx[s].write.id) \cup {tx[s].write}
     /\ newest' = [newest EXCEPT ![t] = AddScore(@, tx[s].at, tx[s].result)]
     /\ missed' = [missed EXCEPT ![t] = tx[s].at < newest[t].at \/ tx[s].overtaken]
     /\ tx' = [x \in Sessions |->
                 IF x = s THEN NoTx
                 ELSE IF tx[x].open /\ tx[x].write.task = t
                 THEN [tx[x] EXCEPT !.overtaken = TRUE] ELSE tx[x]]
     /\ UNCHANGED begun

\* An ingest that fails leaves nothing.
RollBack(s) ==
  /\ tx[s].open
  /\ tx' = [tx EXCEPT ![s] = NoTx]
  /\ UNCHANGED <<decisions, newest, missed, begun>>

Next ==
  \E s \in Sessions :
    \/ \E id \in Ids, t \in Tasks, report \in Reports, at \in Times :
         Track(s, id, t, report, at)
    \/ \E d \in decisions, j \in Judgements, at \in Times : Judge(s, d, j, at)
    \/ Commit(s)
    \/ RollBack(s)

Spec == Init /\ [][Next]_vars

------------------------------------------------------------------------------
(* What the pages read *)

Status(d) ==
  IF d.verdict # "PENDING" \/ d.outcome # Absent THEN "RESOLVED" ELSE "PENDING"

\* Mutant: a pending decision from a gateway is counted in both buckets.
BucketPending(d) == {d.verdict} \cup IF d.source = "gateway" THEN {"OBSERVED"} ELSE {}

\* A decision from a gateway awaits no verdict.
Bucket(d) ==
  IF d.source = "gateway" /\ d.verdict = "PENDING" THEN {"OBSERVED"} ELSE {d.verdict}
Buckets == Verdicts \cup {"OBSERVED"}

ResolvedRows(ds) == {d \in ds : Status(d) = "RESOLVED"}

Visibility(t, asOf) ==
  LET all == OfTask(decisions, t)
      window == {d \in all : asOf - WindowDays <= d.at /\ d.at <= asOf}
  IN [mix |-> [b \in Buckets |-> Cardinality({d \in window : b \in Bucket(d)})],
      windowVolume |-> Cardinality(window),
      windowResolved |-> Cardinality(ResolvedRows(window)),
      totalVolume |-> Cardinality(all),
      totalResolved |-> Cardinality(ResolvedRows(all))]

Fidelity(row) ==
  IF row.totalVolume > 0 /\ row.totalResolved = 0 THEN "observe-only" ELSE "governed"

\* A day of the agent's activity, as the registry page reports it.
SeenAt == {d.at : d \in decisions}
Registry ==
  [firstSeen |-> IF SeenAt = {} THEN NoTime ELSE Min(SeenAt),
   lastSeen |-> IF SeenAt = {} THEN NoTime ELSE Max(SeenAt),
   sources |-> {d.source : d \in decisions},
   decisionCount |-> Cardinality(decisions)]

CostOf(ds) ==
  LET priced == {d \in ds : d.usd # NoUsd}
  IN [decisionCount |-> Cardinality(ds),
      usd |-> SumFunction([d \in priced |-> d.usd]),
      hasCostSignal |-> priced # {}]

\* In cents: what five minutes of a human cost (DEFAULT_ROI_ASSUMPTIONS).
HumanCost == 375

\* What promoting the tasks that work in shadow would save, were each of their decisions
\* to cost what an average decision costs, times the number of decisions.
Roi(shadow) ==
  LET org == CostOf(decisions)
      volume == SumFunction([t \in shadow |-> CostOf(OfTask(decisions, t)).decisionCount])
      delta == HumanCost * org.decisionCount - org.usd
  IN [volume |-> volume, savings |-> volume * Max({0, delta})]

\* The figures at the head of the dashboard.
Summary(shadow) ==
  LET org == CostOf(decisions)
  IN [decisionCount |-> org.decisionCount, usdSpend |-> org.usd,
      hasCostSignal |-> org.hasCostSignal, roi |-> Roi(shadow)]

IdentityStates == {"DISCOVERED", "ACTIVE", "DORMANT", "RETIRED"}

\* deriveIdentityState and deriveDisplayStatus: the stored state, overlaid with the
\* agent's activity while it is active.
IdentityState(stored, asOf) ==
  CASE stored \in {"RETIRED", "DORMANT"} -> stored
    [] stored = "DISCOVERED" -> IF Registry.lastSeen = NoTime THEN stored ELSE "ACTIVE"
    [] stored = "ACTIVE" ->
         IF Registry.lastSeen = NoTime \/ Registry.lastSeen >= asOf - WindowDays
         THEN "ACTIVE" ELSE "DORMANT"

DisplayStatus(stored, asOf) ==
  CASE stored = "RETIRED" -> "RETIRED"
    [] stored = "DORMANT" -> "DEACTIVATED"
    [] stored = "DISCOVERED" -> IF Registry.lastSeen = NoTime THEN stored ELSE "ACTIVE"
    [] stored = "ACTIVE" ->
         IF Registry.lastSeen = NoTime THEN "ACTIVE"
         ELSE IF Registry.lastSeen >= asOf - WindowDays THEN "ACTIVE" ELSE "IDLE"

VisibilityPage(asOf) ==
  [t \in Tasks |-> [view |-> Visibility(t, asOf), fidelity |-> Fidelity(Visibility(t, asOf))]]
RegistryPage(stored, asOf) ==
  [activity |-> Registry, identityState |-> IdentityState(stored, asOf)]
AdminAgentsPage(stored, asOf) ==
  [identityState |-> IdentityState(stored, asOf),
   displayStatus |-> DisplayStatus(stored, asOf)]

------------------------------------------------------------------------------
(* Properties *)

ReadinessNow(t, asOf) == ComputeReadiness(OfTask(decisions, t), asOf)
ResolvedIn(t, asOf) == ResolvedOf(Windowed(OfTask(decisions, t), asOf))

\* A score rests on evidence for each of its rates: no rate falls back to the 0 that the
\* derive functions return when they divide by nothing, and the number is a percentage.
\* (readiness.ts:124,136,157,162; an escalated decision carries an outcome without
\* being graded, so this is not what the missing signals say.)
EveryRateIsMeasured ==
  \A t \in Tasks, asOf \in Times :
    LET r == ResolvedIn(t, asOf)
        result == ReadinessNow(t, asOf)
    IN result.status = "SCORED" =>
         /\ Graded(r) # {} /\ Confident(r) # {} /\ Engaged(r) # {}
         /\ result.score.num >= 0 /\ AtMost(result.score, 100)

\* A human's correction never flatters the agent: had an overridden or a failed decision
\* been accepted instead, no rate would be worse and the score would not be withheld; and
\* a rescued outcome does not redeem an overridden one. (readiness.ts:87-99.)
OverridesNeverFlatter ==
  \A t \in Tasks, asOf \in Times :
    LET r == ResolvedIn(t, asOf)
    IN Missing(r) = {} =>
         /\ \A d \in Among(r, {"OVERRIDDEN", "FAILED"}) :
              LET better == (r \ {d}) \cup {[d EXCEPT !.verdict = "ACCEPTED"]}
              IN /\ Missing(better) = {}
                 /\ NotAbove(DeriveAccuracy(r), DeriveAccuracy(better))
                 /\ NotAbove(DeriveOverride(better), DeriveOverride(r))
                 /\ NotAbove(Score(r), Score(better))
         /\ \A d \in Among(r, {"OVERRIDDEN"}), outcome \in Outcomes :
              LET other == (r \ {d}) \cup {[d EXCEPT !.outcome = outcome]}
              IN Score(other) = Score(r)

\* The pages agree with each other and with the score although each aggregates the rows
\* itself: one window, one number of decisions, one sum of costs, a mix that adds up; and
\* the resolved counts differ by exactly the decisions whose outcome came without a
\* verdict, which the pages count as resolved and the score does not.
\* (read-models.ts:214-229 against readiness.ts:187-190.)
ViewsReconcile ==
  /\ \A t \in Tasks, asOf \in Times :
       LET view == Visibility(t, asOf)
           result == ReadinessNow(t, asOf)
           unjudged == {d \in Windowed(OfTask(decisions, t), asOf) :
                          d.verdict = "PENDING" /\ d.outcome # Absent}
       IN /\ view.windowVolume = result.eventCount
          /\ view.windowResolved = result.resolvedCount + Cardinality(unjudged)
          /\ SumFunction(view.mix) = view.windowVolume
  /\ \A shadow \in SUBSET Tasks :
       LET org == Summary(shadow)
           CostOfTask(t) == CostOf(OfTask(decisions, t))
       IN /\ org.decisionCount = Registry.decisionCount
          /\ org.decisionCount = SumFunction([t \in Tasks |-> Visibility(t, 0).totalVolume])
          /\ org.usdSpend = SumFunction([t \in Tasks |-> CostOfTask(t).usd])
          /\ org.hasCostSignal = \E t \in Tasks : CostOfTask(t).hasCostSignal
          /\ org.roi.savings \in 0..(org.roi.volume * HumanCost * org.decisionCount)

\* The labels say nothing the evidence denies: an observe-only task has no score at any
\* time and awaits or observes all its decisions; the finer label of an agent refines its
\* identity state; and an agent shown idle has no decision in any window the score uses.
\* (views.ts:23-54, 68-70.)
LabelsAgree ==
  \A asOf \in Times :
    /\ \A t \in Tasks :
         LET row == VisibilityPage(asOf)[t]
             mix == row.view.mix
         IN row.fidelity = "observe-only" =>
              /\ ReadinessNow(t, asOf).status = "INSUFFICIENT"
              /\ mix["PENDING"] + mix["OBSERVED"] = row.view.windowVolume
    /\ \A stored \in IdentityStates :
         LET row == AdminAgentsPage(stored, asOf)
         IN /\ row.identityState = RegistryPage(stored, asOf).identityState
            /\ row.identityState =
                 IF row.displayStatus \in {"IDLE", "DEACTIVATED"} THEN "DORMANT"
                 ELSE row.displayStatus
            /\ row.displayStatus = "IDLE" =>
                 \A t \in Tasks : ReadinessNow(t, asOf).eventCount = 0

\* The pages and their labels agree (read-models.ts, views.ts).
PagesAgree == ViewsReconcile /\ LabelsAgree

\* The score shown for a task is the readiness of all its decisions at the time of its
\* latest event, unless the last ingest was stamped earlier than one already scored or
\* overlapped another of the task: only then may the score lack evidence, and the next
\* ingest in order repairs it. (recompute.ts:133,198-207, repositories.ts:679-682.)
ShownMissesOnlyLateOrOverlapping ==
  \A t \in Tasks :
    newest[t].at # NoTime /\ ~missed[t] =>
      ReadinessNow(t, newest[t].at) \in newest[t].results
==============================================================================
