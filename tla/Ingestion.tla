------------------------------- MODULE Ingestion -------------------------------
(***************************************************************************)
(* The calls of producers to /track, delivered at least once, in any order *)
(* and concurrently (apps/api/src/recompute.ts over decisionRepo,          *)
(* verdictEventRepo and guardrailRuleRepo of packages/persistence), while  *)
(* an administrator switches guardrail rules. A decision is found again by *)
(* the reference its producer gave it; verdicts are appended to a log and  *)
(* materialised in the decision's row; and each call that says something   *)
(* new is judged by the rules and advances the lifecycle by one step.      *)
(*                                                                         *)
(* Abstracted: the readiness score and what the step does with it          *)
(* (TaskLifecycle), and the locks on the agent's and the task's rows       *)
(* (TaskTransactions). The decisions are all of one agent and task.        *)
(***************************************************************************)
EXTENDS Naturals, Sequences, FiniteSetsExt

CONSTANTS
  Sessions,  \* requests in flight at a time
  Calls,     \* the calls a producer may make, each any number of times
  Rules,     \* the guardrail rules there may be, in the order of their creation
  MaxCalls   \* bound: the number of deliveries

NoRef == "NO_REF"
NoTime == 0  \* the producer leaves the time of the event to the server
Absent == "ABSENT"
Verdicts == {"PENDING", "ACCEPTED", "OVERRIDDEN", "ESCALATED", "FAILED"}
Outcomes == {"SUCCESS", "PARTIAL", "FAILURE"}

MakeCall(type, source, ref, verdict, outcome, at, tripped) ==
  [type |-> type, source |-> source, ref |-> ref, verdict |-> verdict,
   outcome |-> outcome, at |-> at, tripped |-> tripped]
NoCall == MakeCall("NONE", "NONE", NoRef, Absent, Absent, NoTime, FALSE)

\* A rule constrains the verdict, the outcome or both.
Rule(verdict, outcome) == [verdict |-> verdict, outcome |-> outcome]
NoTrip == 0
AgentReport == Len(Rules) + 1  \* the agent says itself that it tripped a guardrail

ASSUME IngestionAssumption ==
  /\ \A c \in Calls :
       /\ c.type \in {"decision", "verdict"}
       /\ c.verdict \in Verdicts \cup {Absent}
       /\ c.outcome \in Outcomes \cup {Absent}
       /\ c.at \in Nat /\ c.tripped \in BOOLEAN
       /\ c.type = "verdict" => c.ref # NoRef
  /\ Rules \in Seq([verdict : Verdicts \cup {Absent}, outcome : Outcomes \cup {Absent}]
                   \ {Rule(Absent, Absent)})
  /\ MaxCalls \in Nat

VARIABLES
  decisions,  \* the committed decisions, by reference
  events,     \* the keys of the committed verdict events
  steps,      \* how often a decision or an event has advanced the lifecycle
  enabled,    \* the rules that are enabled
  tx,         \* the transaction of each session
  now,        \* the server's clock, in deliveries
  delivered   \* the number of deliveries

vars == <<decisions, events, steps, enabled, tx, now, delivered>>

------------------------------------------------------------------------------
(* Rows and keys *)

Refs == {c.ref : c \in Calls} \ {NoRef}
Times == ({c.at : c \in Calls} \cup 1..(MaxCalls + 1)) \ {NoTime}

NoRow == [verdict |-> Absent, outcome |-> Absent, status |-> Absent]
StatusOf(verdict, outcome) ==
  IF verdict # "PENDING" \/ outcome # Absent THEN "RESOLVED" ELSE "PENDING"
Row(verdict, outcome, status) ==
  [verdict |-> verdict, outcome |-> outcome, status |-> status]
DecisionRows ==
  [verdict : Verdicts, outcome : Outcomes \cup {Absent},
   status : {"PENDING", "RESOLVED"}]

\* What a delivery is recognised by when it comes again: a decision by its reference,
\* a verdict event by its source, reference and time.
DecisionKey(ref) == <<"decision", ref>>
EventKey(source, ref, at) == <<"verdict", source, ref, at>>
Key(c, at) ==
  IF c.type = "decision" THEN DecisionKey(c.ref) ELSE EventKey(c.source, c.ref, at)
EventKeys ==
  {EventKey(c.source, c.ref, at) : c \in {d \in Calls : d.type = "verdict"}, at \in Times}
Keys == {DecisionKey(ref) : ref \in Refs \cup {NoRef}} \cup EventKeys

Given(value, otherwise) == IF value = Absent THEN otherwise ELSE value

\* Mutant: a decision that comes without a verdict is stored without one.
CreatedWithoutVerdict(c) == Row(c.verdict, c.outcome, StatusOf(c.verdict, c.outcome))

\* The row that a call inserts: without a verdict it is pending.
Created(c) ==
  LET verdict == Given(c.verdict, "PENDING")
  IN Row(verdict, c.outcome, StatusOf(verdict, c.outcome))

\* Mutant: the status is that of the event alone.
MaterialisedAlone(c, current, loaded) ==
  Row(Given(c.verdict, current.verdict), Given(c.outcome, current.outcome),
      StatusOf(Given(c.verdict, "PENDING"), c.outcome))

\* Mutant: the row loaded before is written back with the columns that the event gives.
MaterialisedWhole(c, current, loaded) ==
  Row(Given(c.verdict, loaded.verdict), Given(c.outcome, loaded.outcome),
      StatusOf(Given(c.verdict, loaded.verdict), Given(c.outcome, loaded.outcome)))

\* The row that a verdict event leaves: the columns it gives are written over the current
\* row, the status is that of the row loaded before.
Materialised(c, current, loaded) ==
  Row(Given(c.verdict, current.verdict), Given(c.outcome, current.outcome),
      StatusOf(Given(c.verdict, loaded.verdict), Given(c.outcome, loaded.outcome)))

Matches(rule, row) ==
  /\ rule.verdict \in {Absent, row.verdict}
  /\ rule.outcome \in {Absent, row.outcome}

\* evaluateGuardrails over the enabled rules: the oldest one that the row violates.
FirstMatch(on, row) ==
  LET matching == {i \in on : Matches(Rules[i], row)}
  IN IF matching = {} THEN NoTrip ELSE Min(matching)

NoTx ==
  [pc |-> "IDLE", call |-> NoCall, at |-> NoTime, loaded |-> NoRow, written |-> NoRow,
   novel |-> FALSE, trip |-> NoTrip, steady |-> {}]

Statements == {"IDLE", "FIND", "INSERT", "APPEND", "LOAD", "UPDATE", "JUDGE", "COMMIT"}
Transactions ==
  [pc : Statements, call : Calls \cup {NoCall}, at : Times \cup {NoTime},
   loaded : DecisionRows \cup {NoRow}, written : DecisionRows \cup {NoRow},
   novel : BOOLEAN, trip : 0..AgentReport, steady : SUBSET DOMAIN Rules]

TypeOK ==
  /\ decisions \in [Refs -> DecisionRows \cup {NoRow}]
  /\ events \subseteq EventKeys
  /\ steps \in [Keys -> Nat]
  /\ enabled \subseteq DOMAIN Rules
  /\ tx \in [Sessions -> Transactions]
  /\ delivered \in 0..MaxCalls /\ now \in 1..(delivered + 1)

Init ==
  /\ decisions = [ref \in Refs |-> NoRow]
  /\ events = {}
  /\ steps = [k \in Keys |-> 0]
  /\ enabled \in SUBSET DOMAIN Rules
  /\ tx = [s \in Sessions |-> NoTx]
  /\ now = 1 /\ delivered = 0

------------------------------------------------------------------------------
(* Waiting. A transaction holds the row it has written and the key it has appended; *)
(* reads wait for no one and see what is committed.                                 *)

Writing(s, ref) == ref # NoRef /\ tx[s].call.ref = ref /\ tx[s].written # NoRow
Appending(s, key) == tx[s].novel /\ Key(tx[s].call, tx[s].at) = key

Blocked(s) ==
  \E o \in Sessions \ {s} :
    \/ tx[s].pc \in {"INSERT", "UPDATE"} /\ Writing(o, tx[s].call.ref)
    \/ tx[s].pc = "APPEND" /\ Appending(o, Key(tx[s].call, tx[s].at))

GoTo(s, statement) == tx' = [tx EXCEPT ![s].pc = statement]
End(s) == tx' = [tx EXCEPT ![s] = NoTx]
Tables == <<decisions, events, steps, enabled>>
Rollback(s) == End(s) /\ UNCHANGED <<Tables, now, delivered>>

------------------------------------------------------------------------------
(* The statements of a call *)

\* A delivery of a call: the first, or one more of a call that the producer repeats.
\* What has no time of its own gets the server's. A decision without a reference is not
\* looked for.
Begin(s, c) ==
  /\ tx[s].pc = "IDLE" /\ delivered < MaxCalls
  /\ now' \in {now, now + 1}
  /\ tx' = [tx EXCEPT ![s] =
              [NoTx EXCEPT !.pc = IF c.ref = NoRef THEN "INSERT" ELSE "FIND",
                           !.call = c,
                           !.at = IF c.at = NoTime THEN now' ELSE c.at,
                           !.steady = enabled]]
  /\ delivered' = delivered + 1
  /\ UNCHANGED Tables

\* findByExternalRef: a decision that is there is a replay, and changes nothing; a verdict
\* on a decision that is not there is answered 404.
Find(s) ==
  LET c == tx[s].call
      found == decisions[c.ref] # NoRow
      Continue(statement) == GoTo(s, statement) /\ UNCHANGED <<Tables, now, delivered>>
  IN /\ tx[s].pc = "FIND"
     /\ \/ c.type = "decision" /\ Continue(IF found THEN "COMMIT" ELSE "INSERT")
        \/ c.type = "verdict" /\ found /\ Continue("APPEND")
        \/ c.type = "verdict" /\ ~found /\ Rollback(s)

\* decisionRepo.create. The reference is unique: where another delivery has committed
\* first, the statement fails, and with it the call.
Insert(s) ==
  LET c == tx[s].call
      conflict == c.ref # NoRef /\ decisions[c.ref] # NoRow
  IN /\ tx[s].pc = "INSERT" /\ ~Blocked(s)
     /\ \/ conflict /\ Rollback(s)
        \/ /\ ~conflict
           /\ tx' = [tx EXCEPT ![s].pc = "JUDGE", ![s].novel = TRUE,
                               ![s].written = Created(c)]
           /\ UNCHANGED <<Tables, now, delivered>>

\* Mutant: an event is taken for a replay when its decision is resolved already.
AppendedUnlessResolved(s) ==
  /\ Key(tx[s].call, tx[s].at) \notin events
  /\ decisions[tx[s].call.ref].status = "PENDING"

\* Mutant: skipDuplicates is counted as an insertion.
AppendedAlways(s) == TRUE

\* Whether createMany inserts the event, or skips it as one that is there.
Appended(s) == Key(tx[s].call, tx[s].at) \notin events

AppendEvent(s) ==
  /\ tx[s].pc = "APPEND" /\ ~Blocked(s)
  /\ tx' = [tx EXCEPT ![s].pc = "LOAD", ![s].novel = Appended(s)]
  /\ UNCHANGED <<Tables, now, delivered>>

Load(s) ==
  /\ tx[s].pc = "LOAD"
  /\ tx' = [tx EXCEPT ![s].pc = "UPDATE", ![s].loaded = decisions[tx[s].call.ref]]
  /\ UNCHANGED <<Tables, now, delivered>>

\* The decision is written whether or not the event was appended; but only what is new
\* goes on to be judged and to advance the lifecycle.
Update(s) ==
  LET c == tx[s].call
  IN /\ tx[s].pc = "UPDATE" /\ ~Blocked(s)
     /\ tx' = [tx EXCEPT ![s].pc = IF tx[s].novel THEN "JUDGE" ELSE "COMMIT",
                         ![s].written = Materialised(c, decisions[c.ref], tx[s].loaded)]
     /\ UNCHANGED <<Tables, now, delivered>>

\* Mutant: the event is applied to the row read before the update.
JudgedByEvent(s) ==
  IF tx[s].call.type = "decision" THEN tx[s].written
  ELSE Materialised(tx[s].call, tx[s].loaded, tx[s].loaded)

\* evalDecision: the decision as it was inserted, or as the update returned it.
Judged(s) == tx[s].written

\* The enabled rules are asked, unless the agent has reported a trip itself.
Judge(s) ==
  /\ tx[s].pc = "JUDGE"
  /\ tx' = [tx EXCEPT ![s].pc = "COMMIT",
                      ![s].trip = IF tx[s].call.tripped THEN AgentReport
                                  ELSE FirstMatch(enabled, Judged(s))]
  /\ UNCHANGED <<Tables, now, delivered>>

\* The row, the event, the score row and the step of the lifecycle, all or none.
Commit(s) ==
  LET c == tx[s].call
      key == Key(c, tx[s].at)
  IN /\ tx[s].pc = "COMMIT"
     /\ decisions' = IF c.ref # NoRef /\ tx[s].written # NoRow
                     THEN [decisions EXCEPT ![c.ref] = tx[s].written] ELSE decisions
     /\ events' = IF tx[s].novel /\ c.type = "verdict" THEN events \cup {key} ELSE events
     /\ steps' = IF tx[s].novel THEN [steps EXCEPT ![key] = @ + 1] ELSE steps
     /\ End(s)
     /\ UNCHANGED <<enabled, now, delivered>>

\* The server stops, the connection breaks or the transaction times out.
Fail(s) == tx[s].pc # "IDLE" /\ Rollback(s)

\* An administrator creates or enables a rule, or disables it.
SetEnabled(i, on) ==
  /\ enabled' = IF on THEN enabled \cup {i} ELSE enabled \ {i}
  /\ tx' = [s \in Sessions |-> [tx[s] EXCEPT !.steady = @ \cap enabled']]
  /\ UNCHANGED <<decisions, events, steps, now, delivered>>

Next ==
  \/ \E s \in Sessions :
       \/ \E c \in Calls : Begin(s, c)
       \/ Find(s)
       \/ Insert(s)
       \/ AppendEvent(s)
       \/ Load(s)
       \/ Update(s)
       \/ Judge(s)
       \/ Commit(s)
       \/ Fail(s)
  \/ \E i \in DOMAIN Rules : \E on \in BOOLEAN : SetEnabled(i, on)

Spec == Init /\ [][Next]_vars

------------------------------------------------------------------------------
(* Properties *)

\* However calls are repeated, reordered, interleaved or lost, each decision and each event
\* that is in the database has advanced the lifecycle exactly once, and nothing else has
\* ("either every step commits, or the whole thing rolls back", recompute.ts).
SteppedExactlyOnce ==
  /\ \A ref \in Refs :
       steps[DecisionKey(ref)] = IF decisions[ref] = NoRow THEN 0 ELSE 1
  /\ \A k \in EventKeys : steps[k] = IF k \in events THEN 1 ELSE 0

Commits(s) == tx[s].pc = "COMMIT" /\ tx'[s].pc = "IDLE"

\* A decision changes without a step of the lifecycle only when an event that is already
\* in the log is delivered again: recompute misses nothing else.
SilentChangeIsReplay ==
  decisions' # decisions /\ steps' = steps =>
    \E s \in Sessions : Commits(s) /\ Key(tx[s].call, tx[s].at) \in events
SilentChangesAreReplays == [][SilentChangeIsReplay]_vars

\* Whatever a call that says something new leaves in the row, with what others wrote to it
\* at the same time, has been judged: if it violates a rule that was enabled all along, the
\* call trips a guardrail; and a rule that trips is one that the row violates.
NewIsJudged ==
  \A s \in Sessions :
    Commits(s) /\ tx[s].novel =>
      /\ (\E i \in tx[s].steady : Matches(Rules[i], tx[s].written)) => tx[s].trip # NoTrip
      /\ tx[s].trip \in DOMAIN Rules => Matches(Rules[tx[s].trip], tx[s].written)
NothingNewIsUnjudged == [][NewIsJudged]_vars

\* The status of a decision disagrees with its verdict and outcome only where a transaction
\* that had read the row before another one's commit wrote it after.
Consistent(row) == row = NoRow \/ row.status = StatusOf(row.verdict, row.outcome)
LagIsOverlap ==
  \A ref \in Refs :
    decisions'[ref] # decisions[ref] /\ ~Consistent(decisions'[ref]) =>
      \E s \in Sessions :
        Commits(s) /\ tx[s].call.ref = ref /\ tx[s].loaded # decisions[ref]
StatusLagsOnlyByOverlap == [][LagIsOverlap]_vars

\* Of the columns of verdict and outcome, and of the steps of the lifecycle, every
\* interleaving of requests makes what the reports would make if each were entered at
\* once, at the commit of its request: neither of two overlapping verdicts is lost in the
\* other (repositories.ts verdictEventRepo.apply, recompute.ts).
Report(c, at) ==
  [type |-> c.type, key |-> Key(c, at), ref |-> c.ref, verdict |-> c.verdict,
   outcome |-> c.outcome]
Reports == {Report(c, at) : c \in Calls, at \in Times}
Abstract == INSTANCE Ledger WITH
  entries <- [ref \in Refs |->
                [verdict |-> decisions[ref].verdict, outcome |-> decisions[ref].outcome]],
  advanced <- steps
ImplementsLedger == Abstract!Spec

\* The times that a call may be recorded at: its own, or the server's at any delivery.
TimesOf(c) == IF c.at = NoTime THEN Times ELSE {c.at}

\* "An adapter that replays events must never double-count" (PROVABLE_CORE_ARCHITECTURE.md:64;
\* "Idempotent replay: no new data -> no new score row, no lifecycle advance",
\* recompute.ts:201): a call that its producer repeats advances the lifecycle once. The
\* code does not keep this for a verdict without a time: each delivery gives it another.
RepeatsAdvanceOnce ==
  \A c \in Calls : c.ref # NoRef =>
    \A t, u \in TimesOf(c) : steps[Key(c, t)] > 0 /\ steps[Key(c, u)] > 0 => t = u

\* "A replayed event is a single effect" (idempotency-materialization.test.ts:16): the
\* delivery of an event that is in the log already leaves its decision as it is. The code
\* writes the decision again.
ReplaysAreSilent ==
  [][\A s \in Sessions :
       Commits(s) /\ Key(tx[s].call, tx[s].at) \in events => decisions' = decisions]_vars
==============================================================================
