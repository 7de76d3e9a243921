------------------------------ MODULE Connectors ------------------------------
(***************************************************************************)
(* What sources report in batches, through stored connectors (push and     *)
(* pull), the events connector and the SDK, beside the gateways' calls     *)
(* (apps/api/src/connector-engine.ts and connector.ts,                     *)
(* packages/adapters/src/generic.ts, sdk-python/src/provable_sdk).         *)
(*                                                                         *)
(* A source has one batch, which it delivers again until all of it is      *)
(* answered for. Each record is reported in a transaction of its own.      *)
(***************************************************************************)
EXTENDS Gateways

CONSTANTS
  Sources,  \* sources of batches
  Batches,  \* what their batches may be: sequences of Items
  MaxCopies \* bound: decisions of a source without a reference

VARIABLE src  \* each source and its delivery

vars == <<gatewayVars, src>>

\* A record of a batch: whether its verdict is one the mapping knows, and its
\* time one the database accepts.
Items == [ref : Refs \cup {NoRef}, verdict : BOOLEAN, time : BOOLEAN]
Routes == {"PUSH", "PULL", "EVENTS", "SDK"}
Stored == {"PUSH", "PULL"}

ASSUME ConnectorsAssumption ==
  /\ Batches \subseteq Seq(Items) \ {<<>>}
  /\ \A c \in Calls : c \notin Sources
  /\ MaxCopies \in Nat

\* A mapping has a verdict block or not; a connector a pull source or not.
Mappings == [verdict : BOOLEAN, pull : BOOLEAN]
DefaultMapping == [verdict |-> TRUE, pull |-> FALSE]

NoSource ==
  [route |-> "PUSH", mapping |-> DefaultMapping, batch |-> <<>>, next |-> 1,
   errors |-> {}, governed |-> {}, observeOnly |-> {}, state |-> "IDLE"]

ConnectorsInit ==
  /\ GatewaysInit
  /\ src = [s \in Sources |-> NoSource]

------------------------------------------------------------------------------
(* Mapping *)

\* A record without its reference is refused; a verdict that is absent or
\* unknown leaves the decision observe-only.
Mappable(item) == item.ref # NoRef
ClassifyGoverned(mapping, item) == mapping.verdict /\ item.verdict
Copies(s, ref) == Cardinality({d \in decisions : d.by = s /\ d.ref = ref})
MappedEvent(s, item) ==
  [ref |-> item.ref, by |-> s, copy |-> Copies(s, item.ref),
   governed |-> ClassifyGoverned(src[s].mapping, item), tokens |-> Null, usd |-> Null]

\* The source that a decision names, of whoever reports it.
SourceOf(by) ==
  IF by \in Calls THEN "gateway"
  ELSE IF src[by].route = "SDK" THEN "sdk" ELSE "connector"

------------------------------------------------------------------------------
(* Deliveries *)

Set(s, r) == src' = [src EXCEPT ![s] = r]
Item(s) == src[s].batch[src[s].next]
Mapped(s) == \A i \in DOMAIN src[s].batch : Mappable(src[s].batch[i])

\* A source has something to report, by a route, for which an owner saves a
\* connector where it takes one. The SDK sends one decision.
Prepare(s) ==
  /\ src[s].state = "IDLE" /\ src[s].batch = <<>>
  /\ \E route \in Routes, m \in Mappings, batch \in Batches :
       /\ route \in Stored => m.pull = (route = "PULL")
       /\ route \notin Stored => m = DefaultMapping
       /\ route = "SDK" => Len(batch) = 1
       /\ Set(s, [NoSource EXCEPT !.route = route, !.mapping = m, !.batch = batch])
  /\ UNCHANGED gatewayVars

\* The batch is delivered, for the first time or again. The events connector
\* maps all of it before it reports any; what cannot be pulled is not reported.
Undelivered(s) == src[s].batch # <<>> /\ src[s].state \in {"IDLE", "PART", "FAILED"}
Deliver(s) ==
  /\ Undelivered(s)
  /\ Copies(s, NoRef) < MaxCopies
  /\ Set(s, [src[s] EXCEPT
       !.next = 1, !.errors = {}, !.governed = {}, !.observeOnly = {},
       !.state = IF src[s].route = "EVENTS" /\ ~Mapped(s) THEN "REJECTED" ELSE "RUNNING"])
  /\ UNCHANGED gatewayVars
Unpulled(s) ==
  /\ Undelivered(s) /\ src[s].route = "PULL"
  /\ Set(s, [src[s] EXCEPT !.next = 1, !.errors = {}, !.governed = {},
                           !.observeOnly = {}, !.state = "FAILED"])
  /\ UNCHANGED gatewayVars

Running(s) == src[s].state = "RUNNING" /\ src[s].next <= Len(src[s].batch)

\* A record that cannot be mapped is an error of the summary.
Skip(s) ==
  /\ Running(s) /\ src[s].route \in Stored
  /\ ~Mappable(Item(s))
  /\ Set(s, [src[s] EXCEPT !.errors = @ \cup {src[s].next}, !.next = @ + 1])
  /\ UNCHANGED gatewayVars

\* The next record is reported. An engine's batch goes on past one that failed;
\* the events connector and the SDK give up with it.
Counted(s, at) ==
  [src[s] EXCEPT
    !.next = @ + 1,
    !.governed = IF ClassifyGoverned(src[s].mapping, Item(s)) THEN @ \cup {at} ELSE @,
    !.observeOnly = IF ClassifyGoverned(src[s].mapping, Item(s)) THEN @ ELSE @ \cup {at}]
\* Mutant: an engine's batch, too, gives up with the first that failed.
ErredOnce(s, at) == [src[s] EXCEPT !.state = "FAILED"]
Erred(s, at) ==
  IF src[s].route \in Stored
  THEN [src[s] EXCEPT !.next = @ + 1, !.errors = @ \cup {at}]
  ELSE [src[s] EXCEPT !.state = "FAILED"]
\* Mutant: a record counts whether it was ingested or not.
SummedAlways(s, outcome) == Counted(s, src[s].next)
Summed(s, outcome) ==
  IF outcome = "OK" THEN Counted(s, src[s].next) ELSE Erred(s, src[s].next)
ReportRecord(s, outcome) ==
  /\ Running(s)
  /\ src[s].route # "SDK" => Mappable(Item(s))
  /\ Item(s).time \/ outcome = "FAILED"
  /\ Report(MappedEvent(s, Item(s)), outcome)
  /\ Set(s, Summed(s, outcome))
  /\ UNCHANGED <<call, restarts>>

\* The summary, or the answer, of a batch.
Finish(s) ==
  /\ src[s].state = "RUNNING" /\ src[s].next > Len(src[s].batch)
  /\ Set(s, [src[s] EXCEPT !.state = IF src[s].errors = {} THEN "OK" ELSE "PART"])
  /\ UNCHANGED gatewayVars

\* The API process restarts: calls and batches in flight are cut off.
Restart ==
  /\ restarts < MaxRestarts
  /\ restarts' = restarts + 1
  /\ CutOff
  /\ src' = [s \in Sources |->
       IF src[s].state = "RUNNING" THEN [src[s] EXCEPT !.state = "FAILED"] ELSE src[s]]
  /\ UNCHANGED decisions

SourceNext ==
  \E s \in Sources :
    \/ Prepare(s) \/ Deliver(s) \/ Unpulled(s) \/ Skip(s) \/ Finish(s)
    \/ \E outcome \in Outcomes : ReportRecord(s, outcome)

Next ==
  \/ CallNext /\ UNCHANGED src
  \/ SourceNext
  \/ Restart

\* A source delivers again what was not answered for, the API goes through what
\* was delivered, and a record is not refused for ever for want of the database.
Fairness ==
  \A s \in Sources :
    /\ WF_vars(Deliver(s) \/ Skip(s) \/ Finish(s))
    /\ WF_vars(\E outcome \in Outcomes : ReportRecord(s, outcome))
    /\ \A i \in UNION {DOMAIN b : b \in Batches} :
         SF_vars(src[s].next = i /\ ReportRecord(s, "OK"))

Spec == ConnectorsInit /\ [][Next]_vars /\ Fairness

------------------------------------------------------------------------------
(* Properties *)

TypeOK ==
  /\ GatewaysTypeOK
  /\ \A s \in Sources :
       /\ src[s].route \in Routes /\ src[s].mapping \in Mappings
       /\ src[s].state \in {"IDLE", "RUNNING", "OK", "PART", "FAILED", "REJECTED"}
       /\ src[s].errors \cup src[s].governed \cup src[s].observeOnly
            \subseteq DOMAIN src[s].batch

\* A summary answers for every record: one that is not among its errors is in
\* the record, under its reference, and with a verdict if it is counted as
\* governed, but where another report of its reference came first; a batch that
\* the events connector refuses has reported none of its own
\* (connector-engine.ts ingestRecords, connector.ts).
SummariesAnswerForAll ==
  \A s \in Sources :
    /\ src[s].state # "REJECTED" =>
         \A i \in 1..(src[s].next - 1) \ src[s].errors :
           \E d \in decisions :
             /\ d.ref = src[s].batch[i].ref
             /\ i \in src[s].governed /\ d.by = s =>
                  d.governed \/ \E j \in DOMAIN src[s].batch \ {i} :
                                  src[s].batch[j].ref = d.ref
    /\ src[s].state = "REJECTED" => DecisionsBy(s) = {}

\* What is recorded of a reference is not changed by a later report of it, and its own
\* source's never repeats it: not a batch that is delivered again after it was cut off,
\* nor a record that was recorded without its reporter learning so (repositories.ts
\* createIfAbsent; "an adapter that replays events must never double-count",
\* PROVABLE_CORE_ARCHITECTURE.md:63-64).
FirstReportStands ==
  [][/\ decisions \subseteq decisions'
     /\ \A d \in decisions' \ decisions : d.ref # NoRef =>
          \A e \in decisions' :
            e.ref = d.ref /\ SourceOf(e.by) = SourceOf(d.by) => e = d]_vars

\* "(source, externalRef) is the dedup key" (contracts/src/decision.ts:27): what a summary
\* counts as ingested is in the record as its own source's, whatever other sources have
\* reported under the same reference. The code looks for the reference alone, and drops it.
DedupIsBySource ==
  \A s \in Sources : \A i \in src[s].governed \cup src[s].observeOnly :
    \E d \in decisions :
      d.ref = src[s].batch[i].ref /\ SourceOf(d.by) = SourceOf(s)

\* What a stored connector's source can report is in the end recorded, whatever
\* else its batch holds; what the events connector's can, if nothing in its
\* batch is in the way of it (connector-engine.ts ingestRecords, connector.ts).
Reportable(item) == Mappable(item) /\ item.time
GoodRecordsGetThrough ==
  \A s \in Sources : \A r \in Refs :
    (/\ src[s].route \in Stored \cup {"EVENTS"}
     /\ \E i \in DOMAIN src[s].batch :
          /\ src[s].batch[i].ref = r /\ Reportable(src[s].batch[i])
          /\ src[s].route = "EVENTS" =>
               Mapped(s) /\ \A j \in 1..i : Reportable(src[s].batch[j]))
    ~> Known(r)

\* "governed: number; // records WITH a verdict -> scored/governable"
\* (connector-engine.ts:69): a record that a summary counts as governed is
\* recorded with a verdict. The code does not keep this: the first report of a
\* reference stands, and another source's may have come without one.
GovernedAreScored ==
  \A s \in Sources : \A i \in src[s].governed :
    \E d \in decisions : d.ref = src[s].batch[i].ref /\ d.governed
=============================================================================
