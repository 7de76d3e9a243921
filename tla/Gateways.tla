------------------------------- MODULE Gateways -------------------------------
(***************************************************************************)
(* The two gateways, that pass an agent's calls to its model on and record *)
(* each as an observe-only decision (apps/api/src/gateway.ts and           *)
(* anthropic-gateway.ts, packages/adapters/src/anthropic-gateway.ts).      *)
(*                                                                         *)
(* What is recorded is kept by reference and by whose report it is; what a *)
(* recorded decision does to readiness and mode is in TaskLifecycle. A     *)
(* model's name is the sequence of its segments between hyphens. Names of  *)
(* agents and tasks, which every report gives, are left out.               *)
(***************************************************************************)
EXTENDS Integers, FiniteSets, Sequences

CONSTANTS
  Calls,       \* the agents' calls; the upstream gives call c the id c
  Refs,        \* references, the calls' ids among them
  Instants,    \* the milliseconds in which calls start
  Models,      \* names of models that the upstream answers with
  Price,       \* the table: name |-> [input, output], per token
  Null,        \* no value
  MaxOutput,   \* bound: output tokens of a call
  MaxRestarts  \* bound: restarts of the API process

NoRef == "NO_REF"

ASSUME GatewaysAssumption ==
  /\ Calls \subseteq Refs /\ NoRef \notin Refs
  /\ Models \cup DOMAIN Price \subseteq Seq(STRING)
  /\ MaxOutput \in Nat \ {0} /\ MaxRestarts \in Nat

VARIABLES
  decisions, \* the decisions recorded
  call,      \* each call
  restarts   \* the number of restarts

gatewayVars == <<decisions, call, restarts>>

------------------------------------------------------------------------------
(* The price of a call *)

Versions == {"DATE", "latest"}
Root(m) ==
  IF Len(m) > 1 /\ m[Len(m)] \in Versions THEN SubSeq(m, 1, Len(m) - 1) ELSE m
Extends(m, r) == Len(m) > Len(r) /\ SubSeq(m, 1, Len(r)) = r

\* The entries of the table that price a model: the name itself, else its
\* family without the version, else the longest family that it qualifies.
Entries(m) ==
  LET exact == {n \in DOMAIN Price : n = m}
      byRoot == {n \in DOMAIN Price : Root(n) = Root(m)}
      prefix == {n \in DOMAIN Price : Extends(Root(m), Root(n))}
  IN CASE exact # {} -> exact
       [] exact = {} /\ byRoot # {} -> byRoot
       [] OTHER -> {n \in prefix : \A o \in prefix : Len(Root(o)) <= Len(Root(n))}

Amount(t) == IF t = Null THEN 0 ELSE t
HasTokens(u) == u.input # Null \/ u.output # Null

\* Unknown models and calls without tokens have no price.
Usd(u) ==
  IF u.model = Null \/ ~HasTokens(u) THEN Null
  ELSE IF Entries(u.model) = {} THEN Null
       ELSE LET p == Price[CHOOSE n \in Entries(u.model) : TRUE]
            IN Amount(u.input) * p.input + Amount(u.output) * p.output

------------------------------------------------------------------------------
(* What an upstream says of a call *)

EmptyUsage == [id |-> NoRef, model |-> Null, input |-> Null, output |-> Null]
UsageOf(c) ==
  {u \in [id : {c, NoRef}, model : Models, input : {1, Null}, output : {1, Null}] :
     u.input = Null => u.output = Null}

\* One event of a stream. "START" names the message; a "DELTA" gives the
\* output tokens so far.
Or(v, w, none) == IF v = none THEN w ELSE v
Started(u, v) ==
  [id |-> Or(v.id, u.id, NoRef), model |-> Or(v.model, u.model, Null),
   input |-> Or(v.input, u.input, Null), output |-> Or(v.output, u.output, Null)]
\* Mutant: the counts of the events are added up.
ReduceSseUsageAdding(u, e) ==
  IF e.type = "START" THEN Started(u, e.usage)
  ELSE [u EXCEPT !.output = Amount(u.output) + e.usage.output]
ReduceSseUsage(u, e) ==
  IF e.type = "START" THEN Started(u, e.usage)
  ELSE [u EXCEPT !.output = e.usage.output]

------------------------------------------------------------------------------
(* The record of decisions *)

NoCall ==
  [phase |-> "IDLE", vendor |-> "OPENAI", stream |-> FALSE, at |-> NoRef,
   said |-> EmptyUsage, heard |-> EmptyUsage, rest |-> <<>>, answer |-> "NONE"]

GatewaysInit ==
  /\ decisions = {}
  /\ call = [c \in Calls |-> NoCall]
  /\ restarts = 0

\* A reference is recorded once, whoever reports it; without one, each report
\* is recorded.
\* Mutant: no report is recognised when it comes again.
KnownNever(r) == FALSE
Known(r) == r # NoRef /\ \E d \in decisions : d.ref = r
Ingested(d) == IF Known(d.ref) THEN decisions ELSE decisions \cup {d}

\* A report commits, rolls back, or commits without its caller learning so.
Outcomes == {"OK", "FAILED", "LOST"}
Report(d, outcome) ==
  decisions' = IF outcome = "FAILED" THEN decisions ELSE Ingested(d)

\* The decision of a call: observe-only, with what the call cost. The OpenAI
\* gateway has no prices.
DecisionOf(c) ==
  LET k == call[c]
      u == k.heard
  IN [ref |-> IF u.id = NoRef /\ k.vendor = "ANTHROPIC" THEN k.at ELSE u.id,
      by |-> c, copy |-> 0, governed |-> FALSE,
      tokens |-> IF HasTokens(u) THEN Amount(u.input) + Amount(u.output) ELSE Null,
      usd |-> IF k.vendor = "ANTHROPIC" THEN Usd(u) ELSE Null]

------------------------------------------------------------------------------
(* A call *)

Become(c, k) == call' = [call EXCEPT ![c] = k]
Answer(c, a) == Become(c, [call[c] EXCEPT !.phase = "DONE", !.answer = a])

\* An agent calls its model through a gateway, which calls the upstream.
Ask(c) ==
  \E vendor \in {"OPENAI", "ANTHROPIC"}, stream \in BOOLEAN, at \in Instants :
    /\ call[c].phase = "IDLE"
    /\ Become(c, [call[c] EXCEPT !.phase = "UPSTREAM", !.vendor = vendor,
                                 !.stream = stream, !.at = at])
    /\ UNCHANGED <<decisions, restarts>>

\* The upstream cannot be reached, or answers with an error.
Refused(c) ==
  /\ call[c].phase = "UPSTREAM"
  /\ \/ Answer(c, "502")
     \/ Answer(c, IF call[c].vendor = "OPENAI" /\ call[c].stream
                  THEN "NO_CAPTURE" ELSE "ERROR_NOT_RECORDED")
  /\ UNCHANGED <<decisions, restarts>>

\* A stream begins: OpenAI's passes through, Anthropic's is listened to. A
\* stream without a body is recorded as a call of which nothing is known.
Streamed(c) ==
  /\ call[c].phase = "UPSTREAM" /\ call[c].stream
  /\ IF call[c].vendor = "OPENAI"
     THEN Answer(c, "NO_CAPTURE")
     ELSE \E body \in BOOLEAN :
            Become(c, [call[c] EXCEPT !.answer = "STREAMING",
                         !.phase = IF body THEN "STREAM" ELSE "RECORD"])
  /\ UNCHANGED <<decisions, restarts>>

\* A whole answer: its usage is read if it is JSON.
Answered(c) ==
  /\ call[c].phase = "UPSTREAM" /\ ~call[c].stream
  /\ \/ Answer(c, "RECORDED_NO_USAGE")
     \/ \E u \in UsageOf(c) :
          Become(c, [call[c] EXCEPT !.phase = "RECORD", !.said = u, !.heard = u])
  /\ UNCHANGED <<decisions, restarts>>

\* The next event of a stream. It reaches the caller as it comes; its usage is
\* read when all of it, to the blank line, has come.
Events(c) ==
  IF call[c].said = EmptyUsage
  THEN {[type |-> "START", usage |-> u] : u \in {v \in UsageOf(c) : v.input # Null}}
  ELSE {[type |-> "DELTA", usage |-> [output |-> n]] :
          n \in (Amount(call[c].said.output) + 1)..MaxOutput}
Heard(c, e) == ReduceSseUsage(call[c].heard, e)
Event(c) ==
  /\ call[c].phase = "STREAM" /\ call[c].rest = <<>>
  /\ \E e \in Events(c), whole \in BOOLEAN :
       Become(c, [call[c] EXCEPT
         !.said = IF e.type = "START" THEN e.usage ELSE [@ EXCEPT !.output = e.usage.output],
         !.heard = IF whole THEN Heard(c, e) ELSE @,
         !.rest = IF whole THEN <<>> ELSE <<e>>])
  /\ UNCHANGED <<decisions, restarts>>

\* The rest of an event comes.
Rest(c) ==
  /\ call[c].phase = "STREAM" /\ call[c].rest # <<>>
  /\ Become(c, [call[c] EXCEPT !.heard = Heard(c, call[c].rest[1]), !.rest = <<>>])
  /\ UNCHANGED <<decisions, restarts>>

\* A stream ends and is recorded; broken off by either side, it is not.
End(c) ==
  /\ call[c].phase = "STREAM"
  /\ \E phase \in {"RECORD", "DONE"} : Become(c, [call[c] EXCEPT !.phase = phase])
  /\ UNCHANGED <<decisions, restarts>>

\* The decision of a call is reported. The caller is answered either way; only
\* the OpenAI gateway says which.
\* Mutant: the header does not say that the recording failed.
AnswerAlways(c, outcome) == IF call[c].stream THEN "STREAMING" ELSE "RECORDED"
AnswerOf(c, outcome) ==
  CASE call[c].stream -> "STREAMING"
    [] ~call[c].stream /\ call[c].vendor = "OPENAI" /\ outcome # "OK" -> "RECORD_FAILED"
    [] OTHER -> "RECORDED"
Record(c) ==
  /\ call[c].phase = "RECORD"
  /\ \E outcome \in Outcomes :
       /\ Report(DecisionOf(c), outcome)
       /\ Answer(c, AnswerOf(c, outcome))
  /\ UNCHANGED restarts

\* The API process restarts: the calls in flight are cut off.
CutOff ==
  call' = [c \in Calls |->
    IF call[c].phase = "IDLE" THEN call[c] ELSE [call[c] EXCEPT !.phase = "DONE"]]

CallNext ==
  \E c \in Calls :
    \/ Ask(c) \/ Refused(c) \/ Streamed(c) \/ Answered(c)
    \/ Event(c) \/ Rest(c) \/ End(c) \/ Record(c)

------------------------------------------------------------------------------
(* Properties *)

GatewaysTypeOK ==
  /\ \A d \in decisions : d.ref \in Refs \cup Instants \cup {NoRef}
  /\ \A c \in Calls :
       /\ call[c].phase \in {"IDLE", "UPSTREAM", "STREAM", "RECORD", "DONE"}
       /\ call[c].answer \in {"NONE", "502", "ERROR_NOT_RECORDED", "NO_CAPTURE",
                              "RECORDED_NO_USAGE", "STREAMING", "RECORDED", "RECORD_FAILED"}
  /\ restarts \in 0..MaxRestarts

DecisionsBy(c) == {d \in decisions : d.by = c}

\* "recorded" is said by the OpenAI gateway only of a call whose reference is in the
\* record; and an error, or a header that denies a recording, only of a call that has
\* left no decision (gateway.ts). Of "recorded-no-usage" see RecordedMeansRecorded.
HeadersAreHonest ==
  \A c \in Calls : call[c].vendor = "OPENAI" =>
    /\ call[c].answer = "RECORDED" =>
         DecisionsBy(c) # {} \/ Known(call[c].heard.id)
    /\ call[c].answer \in {"502", "ERROR_NOT_RECORDED", "NO_CAPTURE"} =>
         DecisionsBy(c) = {}

\* "Surface the outcome via the header" (gateway.ts:122-123): a call whose header says that
\* it was recorded, with usage or without, is in the record. The code does not keep this: an
\* answer that is not JSON is said to be recorded without usage and is not recorded at all,
\* and the Anthropic gateway says "recorded" whatever came of it.
RecordedMeansRecorded ==
  \A c \in Calls : call[c].answer \in {"RECORDED", "RECORDED_NO_USAGE"} =>
    DecisionsBy(c) # {} \/ Known(DecisionOf(c).ref)

\* What a call owes: its tokens at the price of the longest family of the table
\* that its model is a version of or qualifies.
Families(m) ==
  {n \in DOMAIN Price : Root(n) = Root(m) \/ Extends(Root(m), Root(n))}
Owed(u) ==
  IF u.model = Null \/ ~HasTokens(u) THEN {Null}
  ELSE IF Families(u.model) = {} THEN {Null}
       ELSE {Amount(u.input) * Price[n].input + Amount(u.output) * Price[n].output :
              n \in {m \in Families(u.model) :
                      \A o \in Families(u.model) : Len(Root(o)) <= Len(Root(m))}}

\* A recorded call has cost what its upstream said last, however the stream was
\* cut into chunks, at its model's price; only a stream that ended inside an
\* event is recorded without that event (anthropic-gateway.ts and
\* adapters/anthropic-gateway.ts). OpenAI's calls have no price (gateway.ts).
CostsAreWhatWasSaid ==
  \A c \in Calls : \A d \in DecisionsBy(c) : call[c].rest = <<>> =>
    LET said == call[c].said
    IN /\ d.tokens = IF HasTokens(said) THEN Amount(said.input) + Amount(said.output)
                     ELSE Null
       /\ d.usd \in IF call[c].vendor = "ANTHROPIC" THEN Owed(said) ELSE {Null}
=============================================================================
