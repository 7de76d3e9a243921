---------------------------- MODULE ConnectorsProofs ---------------------------
(***************************************************************************)
(* The theorems of Connectors, for any number of calls and sources and for *)
(* any batches, whatever is delivered again, lost or cut off.              *)
(*                                                                         *)
(* A call leaves no decision before it is done (CallInv). A decision of a  *)
(* source is one of its batch, which stays the same from its first         *)
(* delivery on (SourceInv); so what was recorded in an earlier delivery    *)
(* answers for the record that is reported again.                          *)
(*                                                                         *)
(* What was heard of a stream is what was said of it, or the event that    *)
(* has come in part makes the difference (MeterInv); and the table's       *)
(* lookup ends at a longest family, whatever the table (EntriesAreLongest).*)
(***************************************************************************)
EXTENDS Connectors, TLAPS, WellFoundedInduction

Before == {"IDLE", "UPSTREAM", "STREAM", "RECORD"}
Unrecorded == {"502", "ERROR_NOT_RECORDED", "NO_CAPTURE", "RECORDED_NO_USAGE"}
Answers == Unrecorded \cup {"NONE", "STREAMING", "RECORDED", "RECORD_FAILED"}

\* A call, whatever its events have said so far.
Rows(at, said, heard, rest) ==
  [phase : Before \cup {"DONE"}, vendor : {"OPENAI", "ANTHROPIC"}, stream : BOOLEAN,
   at : {at}, said : {said}, heard : {heard}, rest : {rest}, answer : Answers]
IsCall(k) == \E at, said, heard, rest : k \in Rows(at, said, heard, rest)

\* A call has left no decision before it is done, and an OpenAI call no answer.
CallInv(c) ==
  /\ IsCall(call[c])
  /\ call[c].phase \in Before \cup {"DONE"} /\ call[c].stream \in BOOLEAN
  /\ call[c].phase \in Before => DecisionsBy(c) = {}
  /\ call[c].phase \in {"IDLE", "UPSTREAM"} => call[c].answer = "NONE"
  /\ call[c].phase = "STREAM" => call[c].answer = "STREAMING"
  /\ call[c].vendor = "OPENAI" =>
       /\ call[c].phase # "STREAM"
       /\ call[c].phase = "RECORD" => call[c].answer = "NONE" /\ ~call[c].stream
       /\ call[c].answer = "RECORDED" => DecisionsBy(c) # {} \/ Known(call[c].heard.id)
       /\ call[c].answer \in Unrecorded => DecisionsBy(c) = {}

CallsInv == call = [c \in Calls |-> call[c]] /\ \A c \in Calls : CallInv(c)

SourceRows ==
  [route : Routes, mapping : Mappings, batch : Batches \cup {<<>>}, next : Nat \ {0},
   errors : SUBSET Nat, governed : SUBSET Nat, observeOnly : SUBSET Nat,
   state : {"IDLE", "RUNNING", "OK", "PART", "FAILED", "REJECTED"}]

\* A decision of a source is one of its batch's records.
OfItsBatch(s, d) ==
  \E j \in DOMAIN src[s].batch :
    /\ d.ref = src[s].batch[j].ref
    /\ d.governed = ClassifyGoverned(src[s].mapping, src[s].batch[j])

\* A record that a summary r of s passes over as reported is in the record D.
AnsweredIn(D, r, s, i) ==
  \E d \in D :
    /\ d.ref = r.batch[i].ref
    /\ i \in r.governed /\ d.by = s =>
         d.governed \/ \E j \in DOMAIN r.batch \ {i} : r.batch[j].ref = d.ref

SourceInv(s) ==
  /\ src[s] \in SourceRows
  /\ src[s].batch = <<>> => src[s].state = "IDLE" /\ DecisionsBy(s) = {}
  /\ src[s].next <= Len(src[s].batch) + 1
  /\ src[s].governed \subseteq 1..(src[s].next - 1)
  /\ \A d \in DecisionsBy(s) : OfItsBatch(s, d)
  /\ src[s].route = "EVENTS" /\ ~Mapped(s) =>
       DecisionsBy(s) = {} /\ src[s].state \in {"IDLE", "REJECTED"}
  /\ src[s].state = "REJECTED" => DecisionsBy(s) = {}
  /\ \A i \in 1..(src[s].next - 1) \ src[s].errors : AnsweredIn(decisions, src[s], s, i)

SourcesInv == src = [s \in Sources |-> src[s]] /\ \A s \in Sources : SourceInv(s)

IInv == CallsInv /\ SourcesInv

------------------------------------------------------------------------------
(* Reports *)

\* A report adds its decision or nothing, and leaves its reference in the record if it is
\* answered for.
LEMMA ReportGrows ==
  ASSUME NEW d, NEW outcome \in Outcomes, Report(d, outcome)
  PROVE  /\ decisions \subseteq decisions' /\ decisions' \subseteq decisions \cup {d}
         /\ d \in decisions' \ decisions => ~Known(d.ref)
         /\ outcome = "OK" => \E e \in decisions' : e.ref = d.ref
         /\ outcome = "OK" => (d \in decisions' \/ (d.ref # NoRef /\ Known(d.ref)))
  BY DEF Report, Ingested, Known, Outcomes

LEMMA FirstStands ==
  ASSUME NEW d, NEW outcome \in Outcomes, Report(d, outcome)
  PROVE  /\ decisions \subseteq decisions'
         /\ \A x \in decisions' \ decisions :
              x.ref # NoRef => \A e \in decisions' : e.ref = x.ref => e = x
<1>1. \A x \in decisions' \ decisions : x = d /\ ~Known(d.ref)
  BY ReportGrows
<1>2. d.ref # NoRef /\ ~Known(d.ref) => \A e \in decisions : e.ref # d.ref
  BY DEF Known
<1> QED
  BY <1>1, <1>2, ReportGrows

LEMMA StepReports ==
  ASSUME [Next]_vars
  PROVE  \/ decisions' = decisions
         \/ \E d, outcome : outcome \in Outcomes /\ Report(d, outcome)
<1>1. CASE UNCHANGED vars
  BY <1>1 DEF vars, gatewayVars
<1>2. ASSUME NEW c \in Calls,
             \/ Ask(c) \/ Refused(c) \/ Streamed(c) \/ Answered(c)
             \/ Event(c) \/ Rest(c) \/ End(c)
      PROVE  decisions' = decisions
  BY <1>2 DEF Ask, Refused, Streamed, Answered, Event, Rest, End
<1>3. ASSUME NEW c \in Calls, Record(c)
      PROVE  \E d, outcome : outcome \in Outcomes /\ Report(d, outcome)
  BY <1>3 DEF Record
<1>4. ASSUME NEW s \in Sources,
             Prepare(s) \/ Deliver(s) \/ Unpulled(s) \/ Skip(s) \/ Finish(s)
      PROVE  decisions' = decisions
  BY <1>4 DEF Prepare, Deliver, Unpulled, Skip, Finish, gatewayVars
<1>5. ASSUME NEW s \in Sources, NEW outcome \in Outcomes, ReportRecord(s, outcome)
      PROVE  \E d, o : o \in Outcomes /\ Report(d, o)
  BY <1>5 DEF ReportRecord
<1>6. CASE Restart
  BY <1>6 DEF Restart
<1> QED
  BY <1>1, <1>2, <1>3, <1>4, <1>5, <1>6 DEF Next, CallNext, SourceNext

\* The reference alone is the key: whoever reports it first, no other report of it is
\* recorded (schema.prisma:295). More than FirstReportStands asks, which leaves room for
\* another source's, and what DedupIsBySource is refuted by.
StandsAlone ==
  /\ decisions \subseteq decisions'
  /\ \A d \in decisions' \ decisions :
       d.ref # NoRef => \A e \in decisions' : e.ref = d.ref => e = d
THEOREM ReferencesAreUnique == Spec => [][StandsAlone]_vars
<1>1. [Next]_vars => [StandsAlone]_vars
  BY StepReports, FirstStands DEF StandsAlone
<1> QED
  BY <1>1, PTL DEF Spec

\* However often a source reports a reference again, what is recorded of it is neither
\* changed nor repeated.
THEOREM FirstReportsStand == Spec => FirstReportStands
<1>1. [Next]_vars =>
        [/\ decisions \subseteq decisions'
         /\ \A d \in decisions' \ decisions : d.ref # NoRef =>
              \A e \in decisions' :
                e.ref = d.ref /\ SourceOf(e.by) = SourceOf(d.by) => e = d]_vars
  BY StepReports, FirstStands
<1> QED
  BY <1>1, PTL DEF Spec, FirstReportStands

------------------------------------------------------------------------------
(* The calls *)

\* What the record has of a call stays when it is another's report that it gets.
LEMMA CallKeeps ==
  ASSUME NEW c \in Calls, CallInv(c), call'[c] = call[c], decisions \subseteq decisions',
         \A d \in decisions' \ decisions : d.by # c
  PROVE  CallInv(c)'
<1>1. DecisionsBy(c)' = DecisionsBy(c)
  BY DEF DecisionsBy
<1>2. \A r : Known(r) => Known(r)'
  BY DEF Known
<1> QED
  BY <1>1, <1>2 DEF CallInv, IsCall

\* A call that goes on without a report.
LEMMA CallGoesOn ==
  ASSUME CallsInv, NEW c \in Calls, NEW k, call' = [call EXCEPT ![c] = k],
         decisions' = decisions,
         IsCall(k), k.phase \in Before \cup {"DONE"}, k.stream \in BOOLEAN,
         call[c].phase \in Before, k.answer # "RECORDED",
         k.phase \in {"IDLE", "UPSTREAM"} => k.answer = "NONE",
         k.phase = "STREAM" => k.answer = "STREAMING",
         k.vendor = "OPENAI" =>
           k.phase # "STREAM" /\ (k.phase = "RECORD" => k.answer = "NONE" /\ ~k.stream)
  PROVE  CallsInv'
<1>1. \A x \in Calls : call'[x] = IF x = c THEN k ELSE call[x]
  BY DEF CallsInv
<1>2. DecisionsBy(c)' = {}
  BY DEF DecisionsBy, CallsInv, CallInv
<1>3. CallInv(c)'
  BY <1>1, <1>2 DEF CallInv, IsCall
<1>4. \A x \in Calls : x # c => CallInv(x)'
  BY <1>1, CallKeeps DEF CallsInv
<1>5. call' = [x \in Calls |-> call'[x]]
  BY DEF CallsInv
<1> QED
  BY <1>3, <1>4, <1>5 DEF CallsInv

LEMMA CallStep ==
  ASSUME CallsInv, NEW c \in Calls,
         \/ Ask(c) \/ Refused(c) \/ Streamed(c) \/ Answered(c)
         \/ Event(c) \/ Rest(c) \/ End(c)
  PROVE  CallsInv'
<1> DEFINE k == call[c]
<1>1. /\ IsCall(k) /\ k.phase \in Before \cup {"DONE"} /\ k.stream \in BOOLEAN
      /\ k.phase \in {"IDLE", "UPSTREAM"} => k.answer = "NONE"
      /\ k.phase = "STREAM" => k.answer = "STREAMING"
      /\ k.vendor = "OPENAI" =>
           k.phase # "STREAM" /\ (k.phase = "RECORD" => k.answer = "NONE" /\ ~k.stream)
  BY DEF CallsInv, CallInv
<1> HIDE DEF k
<1>0. PICK at, said, heard, rest : k \in Rows(at, said, heard, rest)
  BY <1>1 DEF IsCall
<1>2. ASSUME NEW vendor \in {"OPENAI", "ANTHROPIC"}, NEW stream \in BOOLEAN, NEW t,
             k.phase = "IDLE", decisions' = decisions,
             Become(c, [k EXCEPT !.phase = "UPSTREAM", !.vendor = vendor, !.stream = stream,
                                 !.at = t])
      PROVE  CallsInv'
  <2> DEFINE n == [k EXCEPT !.phase = "UPSTREAM", !.vendor = vendor, !.stream = stream,
                            !.at = t]
  <2>1. n \in Rows(t, said, heard, rest) /\ n.phase = "UPSTREAM" /\ n.stream = stream
          /\ n.answer = "NONE"
    BY <1>0, <1>1, <1>2 DEF Rows, Before
  <2>2. call' = [call EXCEPT ![c] = n]
    BY <1>2 DEF Become
  <2>3. call[c].phase \in Before
    BY <1>2 DEF k, Before
  <2> HIDE DEF n
  <2> QED
    BY <1>2, <2>1, <2>2, <2>3, CallGoesOn DEF Before, IsCall
<1>3. ASSUME NEW a, Answer(c, a), k.phase \in Before, decisions' = decisions,
             a \in Answers \ {"RECORDED"}
      PROVE  CallsInv'
  <2> DEFINE n == [k EXCEPT !.phase = "DONE", !.answer = a]
  <2>1. n \in Rows(at, said, heard, rest) /\ n.phase = "DONE" /\ n.stream = k.stream
          /\ n.answer = a
    BY <1>0, <1>3 DEF Rows
  <2>2. call' = [call EXCEPT ![c] = n]
    BY <1>3 DEF Answer, Become, k
  <2>3. call[c].phase \in Before
    BY <1>3 DEF k
  <2> HIDE DEF n
  <2> QED
    BY <1>1, <1>3, <2>1, <2>2, <2>3, CallGoesOn DEF Before, IsCall
<1>4. CASE Ask(c)
  BY <1>2, <1>4 DEF Ask, k
<1>5. CASE Refused(c)
  BY <1>3, <1>5 DEF Refused, k, Before, Answers, Unrecorded
<1>6. CASE Streamed(c)
  <2>1. CASE k.vendor = "OPENAI"
    BY <1>3, <1>6, <2>1 DEF Streamed, k, Before, Answers, Unrecorded
  <2>2. CASE k.vendor # "OPENAI"
    <3>1. PICK body \in BOOLEAN :
            Become(c, [k EXCEPT !.answer = "STREAMING",
                                !.phase = IF body THEN "STREAM" ELSE "RECORD"])
      BY <1>6, <2>2 DEF Streamed, k
    <3> DEFINE n == [k EXCEPT !.answer = "STREAMING",
                              !.phase = IF body THEN "STREAM" ELSE "RECORD"]
    <3>2. n \in Rows(at, said, heard, rest) /\ n.phase \in {"STREAM", "RECORD"} /\ n.stream = k.stream
            /\ n.answer = "STREAMING" /\ n.vendor = k.vendor
      BY <1>0 DEF Rows, Before, Answers
    <3>3. call' = [call EXCEPT ![c] = n] /\ decisions' = decisions /\ k.phase = "UPSTREAM"
      BY <1>6, <3>1 DEF Streamed, Become, k
    <3>4. call[c].phase \in Before
      BY <3>3 DEF k, Before
    <3> HIDE DEF n
    <3> QED
      BY <1>1, <2>2, <3>2, <3>3, <3>4, CallGoesOn DEF Before, IsCall
  <2> QED
    BY <2>1, <2>2
<1>7. CASE Answered(c)
  <2>1. CASE Answer(c, "RECORDED_NO_USAGE")
    BY <1>3, <1>7, <2>1 DEF Answered, k, Before, Answers, Unrecorded
  <2>2. ASSUME NEW u, Become(c, [k EXCEPT !.phase = "RECORD", !.said = u, !.heard = u])
        PROVE  CallsInv'
    <3> DEFINE n == [k EXCEPT !.phase = "RECORD", !.said = u, !.heard = u]
    <3>1. n \in Rows(at, u, u, rest) /\ n.phase = "RECORD" /\ n.stream = k.stream
            /\ n.answer = k.answer
      BY <1>0 DEF Rows, Before
    <3>2. call' = [call EXCEPT ![c] = n] /\ decisions' = decisions /\ k.phase = "UPSTREAM"
            /\ ~k.stream
      BY <1>7, <2>2 DEF Answered, Become, k
    <3>3. call[c].phase \in Before
      BY <3>2 DEF k, Before
    <3> HIDE DEF n
    <3> QED
      BY <1>1, <3>1, <3>2, <3>3, CallGoesOn DEF Before, IsCall
  <2> QED
    BY <1>7, <2>1, <2>2 DEF Answered, k
<1>8. ASSUME NEW n, k.phase = "STREAM", decisions' = decisions,
             call' = [call EXCEPT ![c] = n], IsCall(n), n.phase \in {"STREAM", "RECORD", "DONE"},
             n.answer = k.answer, n.vendor = k.vendor, n.stream = k.stream
      PROVE  CallsInv'
  <2>1. call[c].phase \in Before
    BY <1>8 DEF k, Before
  <2>2. k.vendor # "OPENAI"
    BY <1>1, <1>8
  <2> QED
    BY <1>1, <1>8, <2>1, <2>2, CallGoesOn DEF Before
<1>9. CASE End(c)
  <2>1. PICK phase \in {"RECORD", "DONE"} : Become(c, [k EXCEPT !.phase = phase])
    BY <1>9 DEF End, k
  <2> DEFINE n == [k EXCEPT !.phase = phase]
  <2>2. n \in Rows(at, said, heard, rest) /\ n.phase = phase /\ n.answer = k.answer
          /\ n.vendor = k.vendor /\ n.stream = k.stream
    BY <1>0 DEF Rows, Before
  <2>3. call' = [call EXCEPT ![c] = n] /\ decisions' = decisions /\ k.phase = "STREAM"
    BY <1>9, <2>1 DEF End, Become, k
  <2> HIDE DEF n
  <2> QED
    BY <1>8, <2>2, <2>3 DEF IsCall
<1>10. CASE Rest(c)
  <2> DEFINE now == Heard(c, k.rest[1])
             n == [k EXCEPT !.heard = now, !.rest = <<>>]
  <2>1. call' = [call EXCEPT ![c] = n] /\ decisions' = decisions /\ k.phase = "STREAM"
    BY <1>10 DEF Rest, Become, k
  <2> HIDE DEF now
  <2>2. n \in Rows(at, said, now, <<>>) /\ n.phase = k.phase /\ n.answer = k.answer
          /\ n.vendor = k.vendor /\ n.stream = k.stream
    BY <1>0 DEF Rows
  <2> HIDE DEF n
  <2> QED
    BY <1>8, <2>1, <2>2 DEF IsCall
<1>11. CASE Event(c)
  <2>1. PICK e \in Events(c), whole \in BOOLEAN :
          Become(c, [k EXCEPT
            !.said = IF e.type = "START" THEN e.usage ELSE [@ EXCEPT !.output = e.usage.output],
            !.heard = IF whole THEN Heard(c, e) ELSE @,
            !.rest = IF whole THEN <<>> ELSE <<e>>])
    BY <1>11 DEF Event, k
  <2> DEFINE said2 == IF e.type = "START" THEN e.usage
                      ELSE [k.said EXCEPT !.output = e.usage.output]
             heard2 == IF whole THEN Heard(c, e) ELSE k.heard
             rest2 == IF whole THEN <<>> ELSE <<e>>
             n == [k EXCEPT !.said = said2, !.heard = heard2, !.rest = rest2]
  <2>2. call' = [call EXCEPT ![c] = n] /\ decisions' = decisions /\ k.phase = "STREAM"
    BY <1>11, <2>1 DEF Event, Become, k
  <2> HIDE DEF said2, heard2, rest2
  <2>3. n \in Rows(at, said2, heard2, rest2) /\ n.phase = k.phase /\ n.answer = k.answer
          /\ n.vendor = k.vendor /\ n.stream = k.stream
    BY <1>0 DEF Rows
  <2> HIDE DEF n
  <2> QED
    BY <1>8, <2>2, <2>3 DEF IsCall
<1> QED
  BY <1>4, <1>5, <1>6, <1>7, <1>9, <1>10, <1>11

\* A call is recorded, or is answered without.
LEMMA CallRecords ==
  ASSUME CallsInv, NEW c \in Calls, Record(c)
  PROVE  /\ CallsInv' /\ decisions \subseteq decisions'
         /\ \A d \in decisions' \ decisions : d.by = c
<1> DEFINE k == call[c]
<1>1. PICK outcome \in Outcomes :
        Report(DecisionOf(c), outcome) /\ Answer(c, AnswerOf(c, outcome))
  BY DEF Record
<1> DEFINE d == DecisionOf(c)
           a == AnswerOf(c, outcome)
           n == [k EXCEPT !.phase = "DONE", !.answer = a]
<1>2. /\ d.by = c
      /\ k.vendor = "OPENAI" => d.ref = k.heard.id
  BY DEF DecisionOf
<1>3. PICK at, said, heard, rest : k \in Rows(at, said, heard, rest)
  BY DEF CallsInv, CallInv, IsCall
<1>4. /\ a \in {"STREAMING", "RECORD_FAILED", "RECORDED"}
      /\ k.vendor = "OPENAI" /\ a = "RECORDED" => k.stream \/ outcome = "OK"
  BY DEF AnswerOf
<1>5. k.phase = "RECORD" /\ CallInv(c)
  BY DEF Record, CallsInv
<1>6. call' = [call EXCEPT ![c] = n]
  BY <1>1 DEF Answer, Become
<1> HIDE DEF d, a
<1>7. n \in Rows(at, said, heard, rest) /\ n.phase = "DONE" /\ n.answer = a /\ n.vendor = k.vendor
        /\ n.stream = k.stream /\ n.heard = k.heard
  BY <1>3, <1>4 DEF Rows, Answers
<1>8. /\ decisions \subseteq decisions' /\ decisions' \subseteq decisions \cup {d}
      /\ outcome = "OK" => (d \in decisions' \/ (d.ref # NoRef /\ Known(d.ref)))
  BY <1>1, ReportGrows DEF d
<1> HIDE DEF n
<1>9. \A x \in Calls : call'[x] = IF x = c THEN n ELSE call[x]
  BY <1>6 DEF CallsInv
<1>10. \A x \in Calls : x # c => CallInv(x)'
  BY <1>2, <1>8, <1>9, CallKeeps DEF CallsInv
<1>11. CallInv(c)'
  <2>1. IsCall(call'[c])
    BY <1>7, <1>9 DEF IsCall
  <2>2. call'[c].phase = "DONE" /\ call'[c].stream \in BOOLEAN
          /\ call'[c].answer \notin Unrecorded
    BY <1>4, <1>5, <1>7, <1>9 DEF CallInv, Unrecorded
  <2>3. ASSUME call'[c].vendor = "OPENAI", call'[c].answer = "RECORDED"
        PROVE  DecisionsBy(c)' # {} \/ Known(call[c].heard.id)'
    <3>1. k.vendor = "OPENAI" /\ a = "RECORDED" /\ ~k.stream /\ call'[c].heard.id = d.ref
      BY <1>2, <1>5, <1>7, <1>9, <2>3 DEF CallInv
    <3>2. CASE d \in decisions'
      BY <1>2, <3>2 DEF DecisionsBy
    <3>3. CASE d.ref # NoRef /\ Known(d.ref)
      BY <1>8, <3>1, <3>3 DEF Known
    <3> QED
      BY <1>4, <1>8, <3>1, <3>2, <3>3
  <2> QED
    BY <2>1, <2>2, <2>3 DEF CallInv, Before
<1>12. call' = [x \in Calls |-> call'[x]]
  BY <1>6 DEF CallsInv
<1> QED
  BY <1>2, <1>8, <1>10, <1>11, <1>12 DEF CallsInv

\* A restart leaves every call that was begun done, and its header as it was.
LEMMA CallsAreCutOff ==
  ASSUME CallsInv, CutOff, decisions' = decisions
  PROVE  CallsInv'
<1>1. call' = [c \in Calls |-> call'[c]]
  BY DEF CutOff
<1>2. ASSUME NEW c \in Calls PROVE CallInv(c)'
  <2>1. CASE call[c].phase = "IDLE"
    <3>1. call'[c] = call[c]
      BY <2>1 DEF CutOff
    <3> QED
      BY <3>1, CallKeeps DEF CallsInv
  <2>2. CASE call[c].phase # "IDLE"
    <3>1. call'[c] = [call[c] EXCEPT !.phase = "DONE"]
      BY <2>2 DEF CutOff
    <3>2. PICK at, said, heard, rest : call[c] \in Rows(at, said, heard, rest)
      BY DEF CallsInv, CallInv, IsCall
    <3>3. /\ call'[c] \in Rows(at, said, heard, rest) /\ call'[c].phase = "DONE"
          /\ call'[c].answer = call[c].answer /\ call'[c].vendor = call[c].vendor
          /\ call'[c].stream = call[c].stream /\ call'[c].heard = call[c].heard
      BY <3>1, <3>2 DEF Rows
    <3>4. CallInv(c)
      BY DEF CallsInv
    <3>5. DecisionsBy(c)' = DecisionsBy(c) /\ \A r : Known(r) => Known(r)'
      BY DEF DecisionsBy, Known
    <3>6. /\ IsCall(call'[c]) /\ call'[c].phase = "DONE" /\ call'[c].stream \in BOOLEAN
          /\ call'[c].vendor = "OPENAI" =>
               /\ call'[c].answer = "RECORDED" =>
                    DecisionsBy(c)' # {} \/ Known(call[c].heard.id)'
               /\ call'[c].answer \in Unrecorded => DecisionsBy(c)' = {}
      BY <3>3, <3>4, <3>5 DEF CallInv, IsCall
    <3> QED
      BY <3>6 DEF CallInv, Before
  <2> QED
    BY <2>1, <2>2
<1> QED
  BY <1>1, <1>2 DEF CallsInv

------------------------------------------------------------------------------
(* The sources *)

LEMMA BatchIsSeq ==
  ASSUME NEW r \in SourceRows
  PROVE  /\ r.batch \in Seq(Items) /\ Len(r.batch) \in Nat
         /\ DOMAIN r.batch = 1..Len(r.batch)
         /\ r.next \in Nat /\ r.next >= 1
<1>1. r.batch \in Batches \cup {<<>>} /\ r.next \in Nat \ {0}
  BY DEF SourceRows
<1>2. <<>> \in Seq(Items)
  OBVIOUS
<1>3. r.batch \in Seq(Items)
  BY <1>1, <1>2, ConnectorsAssumption
<1> QED
  BY <1>1, <1>3

\* A source is where it was when it is another's report that is recorded.
LEMMA SourceKeeps ==
  ASSUME NEW s \in Sources, SourceInv(s), src'[s] = src[s], decisions \subseteq decisions',
         \A d \in decisions' \ decisions : d.by # s
  PROVE  SourceInv(s)'
<1>1. DecisionsBy(s)' = DecisionsBy(s)
  BY DEF DecisionsBy
<1>2. \A d : OfItsBatch(s, d)' = OfItsBatch(s, d)
  BY DEF OfItsBatch
<1>3. Mapped(s)' = Mapped(s)
  BY DEF Mapped
<1>4. \A i : AnsweredIn(decisions, src[s], s, i) => AnsweredIn(decisions', src'[s], s, i)
  BY DEF AnsweredIn
<1> QED
  BY <1>1, <1>2, <1>3, <1>4 DEF SourceInv

\* A source goes on with its batch.
LEMMA SourceGoesOn ==
  ASSUME NEW s \in Sources, SourceInv(s), NEW r \in SourceRows, src'[s] = r,
         r.route = src[s].route, r.mapping = src[s].mapping, r.batch = src[s].batch,
         r.batch # <<>>, r.next <= Len(r.batch) + 1, r.governed \subseteq 1..(r.next - 1),
         decisions \subseteq decisions',
         \A d \in decisions' \ decisions : d.by = s => OfItsBatch(s, d),
         r.route = "EVENTS" /\ ~Mapped(s) => r.state = "REJECTED",
         r.state = "REJECTED" => DecisionsBy(s)' = {},
         \A i \in 1..(r.next - 1) \ r.errors :
           \/ AnsweredIn(decisions', r, s, i)
           \/ /\ i \in 1..(src[s].next - 1) \ src[s].errors
              /\ i \in r.governed => i \in src[s].governed
  PROVE  SourceInv(s)'
<1>1. \A d \in DecisionsBy(s)' : OfItsBatch(s, d)
  BY DEF DecisionsBy, SourceInv
<1>2. \A d : OfItsBatch(s, d) => OfItsBatch(s, d)'
  BY DEF OfItsBatch
<1>3. Mapped(s)' = Mapped(s)
  BY DEF Mapped
<1>4. \A i \in 1..(r.next - 1) \ r.errors : AnsweredIn(decisions', r, s, i)
  <2> SUFFICES ASSUME NEW i \in 1..(r.next - 1) \ r.errors,
                      i \in 1..(src[s].next - 1) \ src[s].errors,
                      i \in r.governed => i \in src[s].governed
               PROVE  AnsweredIn(decisions', r, s, i)
    OBVIOUS
  <2>1. AnsweredIn(decisions, src[s], s, i)
    BY DEF SourceInv
  <2> QED
    BY <2>1 DEF AnsweredIn
<1> QED
  BY <1>1, <1>2, <1>3, <1>4 DEF SourceInv

\* A step of one source that reports nothing.
LEMMA SourceMoves ==
  ASSUME SourcesInv, NEW s \in Sources,
         Prepare(s) \/ Deliver(s) \/ Unpulled(s) \/ Skip(s) \/ Finish(s)
  PROVE  SourcesInv'
<1> DEFINE o == src[s]
<1>1. SourceInv(s) /\ o \in SourceRows
  BY DEF SourcesInv, SourceInv
<1>2. /\ o.batch \in Seq(Items) /\ Len(o.batch) \in Nat /\ DOMAIN o.batch = 1..Len(o.batch)
      /\ o.next \in Nat /\ o.next >= 1 /\ o.next <= Len(o.batch) + 1
  BY <1>1, BatchIsSeq DEF SourceInv
<1>3. decisions' = decisions
  BY DEF Prepare, Deliver, Unpulled, Skip, Finish, gatewayVars
<1>4. DecisionsBy(s)' = DecisionsBy(s)
  BY <1>3 DEF DecisionsBy
<1>5. ASSUME NEW r, Set(s, r), src'[s] = r => SourceInv(s)' PROVE SourcesInv'
  <2>1. \A x \in Sources : src'[x] = IF x = s THEN r ELSE src[x]
    BY <1>5 DEF Set, SourcesInv
  <2>2. \A x \in Sources : x # s => SourceInv(x)'
    BY <1>3, <2>1, SourceKeeps DEF SourcesInv
  <2>3. src' = [x \in Sources |-> src'[x]]
    BY <1>5 DEF Set, SourcesInv
  <2> QED
    BY <1>5, <2>1, <2>2, <2>3 DEF SourcesInv
<1>6. CASE Prepare(s)
  <2>1. PICK route \in Routes, m \in Mappings, batch \in Batches :
          Set(s, [NoSource EXCEPT !.route = route, !.mapping = m, !.batch = batch])
    BY <1>6 DEF Prepare
  <2> DEFINE r == [NoSource EXCEPT !.route = route, !.mapping = m, !.batch = batch]
  <2>2. r \in SourceRows /\ r.next = 1 /\ r.governed = {} /\ r.state = "IDLE"
    <3>1. NoSource \in SourceRows
      BY DEF NoSource, SourceRows, Routes, Mappings, DefaultMapping
    <3>2. NoSource.next = 1 /\ NoSource.governed = {} /\ NoSource.state = "IDLE"
      BY DEF NoSource
    <3> QED
      BY <3>1, <3>2 DEF SourceRows
  <2>3. Len(r.batch) \in Nat /\ r.batch # <<>>
    BY <2>2, ConnectorsAssumption DEF NoSource
  <2>4. DecisionsBy(s)' = {}
    BY <1>1, <1>4, <1>6 DEF Prepare, SourceInv
  <2> HIDE DEF r
  <2>5. src'[s] = r => SourceInv(s)'
    BY <2>2, <2>3, <2>4 DEF SourceInv
  <2> QED
    BY <1>5, <2>1, <2>5 DEF r
<1>7. ASSUME NEW state \in {"RUNNING", "FAILED", "REJECTED"}, Undelivered(s),
             Set(s, [o EXCEPT !.next = 1, !.errors = {}, !.governed = {},
                              !.observeOnly = {}, !.state = state]),
             state = "REJECTED" => o.route = "EVENTS" /\ ~Mapped(s),
             o.route = "EVENTS" /\ ~Mapped(s) => state = "REJECTED"
      PROVE  SourcesInv'
  <2> DEFINE r == [o EXCEPT !.next = 1, !.errors = {}, !.governed = {},
                            !.observeOnly = {}, !.state = state]
  <2>1. /\ r \in SourceRows /\ r.next = 1 /\ r.governed = {} /\ r.state = state
        /\ r.route = o.route /\ r.mapping = o.mapping /\ r.batch = o.batch
    <3>1. o \in SourceRows
      BY <1>1
    <3>2. state \in {"IDLE", "RUNNING", "OK", "PART", "FAILED", "REJECTED"}
      BY <1>7
    <3> DEFINE one == 1
               none == {}
    <3>3. one \in Nat \ {0} /\ none \in SUBSET Nat
      OBVIOUS
    <3> HIDE DEF o, one, none
    <3> DEFINE q == [o EXCEPT !.next = one, !.errors = none, !.governed = none,
                              !.observeOnly = none, !.state = state]
    <3>4. /\ q \in SourceRows /\ q.next = one /\ q.governed = none /\ q.state = state
          /\ q.route = o.route /\ q.mapping = o.mapping /\ q.batch = o.batch
      BY <3>1, <3>2, <3>3 DEF SourceRows
    <3>5. r = q
      BY DEF one, none
    <3> HIDE DEF q
    <3> QED
      BY <3>4, <3>5 DEF one, none
  <2>2. r.batch # <<>>
    BY <1>7, <2>1 DEF Undelivered
  <2>3. state = "REJECTED" => DecisionsBy(s)' = {}
    BY <1>1, <1>4, <1>7 DEF SourceInv
  <2> HIDE DEF r
  <2>4. src'[s] = r => SourceInv(s)'
    BY <1>1, <1>2, <1>3, <1>7, <2>1, <2>2, <2>3, SourceGoesOn
  <2> QED
    BY <1>5, <1>7, <2>4 DEF r
<1>8. CASE Deliver(s)
  BY <1>7, <1>8 DEF Deliver
<1>9. CASE Unpulled(s)
  BY <1>7, <1>9 DEF Unpulled
<1>10. CASE Skip(s)
  <2> DEFINE r == [o EXCEPT !.errors = @ \cup {o.next}, !.next = @ + 1]
  <2>1. /\ r \in SourceRows /\ r.next = o.next + 1 /\ r.governed = o.governed
        /\ r.errors = o.errors \cup {o.next} /\ r.state = o.state
        /\ r.route = o.route /\ r.mapping = o.mapping /\ r.batch = o.batch
    <3>1. o.errors \cup {o.next} \in SUBSET Nat /\ o.next + 1 \in Nat \ {0}
            /\ o.governed \in SUBSET Nat /\ o.observeOnly \in SUBSET Nat
            /\ o.state \in {"IDLE", "RUNNING", "OK", "PART", "FAILED", "REJECTED"}
      BY <1>1, <1>2 DEF SourceRows
    <3>2. o \in SourceRows
      BY <1>1
    <3> HIDE DEF o
    <3> QED
      BY <3>1, <3>2 DEF SourceRows
  <2>2. /\ o.state = "RUNNING" /\ o.next <= Len(o.batch) /\ o.route # "EVENTS"
        /\ Set(s, r)
    BY <1>10 DEF Skip, Running, Stored
  <2>3. o.batch # <<>> /\ o.governed \subseteq 1..(o.next - 1)
    BY <1>1, <2>2 DEF SourceInv
  <2> HIDE DEF r
  <2>4. src'[s] = r => SourceInv(s)'
    <3>1. r.next <= Len(r.batch) + 1 /\ r.governed \subseteq 1..(r.next - 1)
      BY <1>2, <2>1, <2>2, <2>3
    <3>2. \A i \in 1..(r.next - 1) \ r.errors : i \in 1..(o.next - 1) \ o.errors
      BY <1>2, <2>1
    <3> QED
      BY <1>1, <1>3, <2>1, <2>2, <2>3, <3>1, <3>2, SourceGoesOn
  <2> QED
    BY <1>5, <2>2, <2>4
<1>11. CASE Finish(s)
  <2> DEFINE state == IF o.errors = {} THEN "OK" ELSE "PART"
             r == [o EXCEPT !.state = state]
  <2>1. /\ r \in SourceRows /\ r.next = o.next /\ r.governed = o.governed
        /\ r.errors = o.errors /\ r.state \in {"OK", "PART"}
        /\ r.route = o.route /\ r.mapping = o.mapping /\ r.batch = o.batch
    BY <1>1 DEF SourceRows
  <2>2. Set(s, r) /\ o.state = "RUNNING"
    BY <1>11 DEF Finish
  <2>3. /\ o.batch # <<>> /\ o.governed \subseteq 1..(o.next - 1)
        /\ ~(o.route = "EVENTS" /\ ~Mapped(s))
    BY <1>1, <2>2 DEF SourceInv
  <2> HIDE DEF r
  <2>4. src'[s] = r => SourceInv(s)'
    BY <1>1, <1>2, <1>3, <2>1, <2>3, SourceGoesOn
  <2> QED
    BY <1>5, <2>2, <2>4
<1> QED
  BY <1>6, <1>8, <1>9, <1>10, <1>11

\* A report of a source is answered for by what is then in the record: by this decision, by
\* an earlier one of the same batch, or by another's.
LEMMA ReportAnswers ==
  ASSUME NEW s \in Sources, SourceInv(s), Running(s), NEW outcome \in Outcomes,
         Report(MappedEvent(s, Item(s)), outcome), outcome = "OK",
         NEW r \in SourceRows, r.batch = src[s].batch,
         src[s].next \in r.governed => ClassifyGoverned(src[s].mapping, Item(s))
  PROVE  AnsweredIn(decisions', r, s, src[s].next)
<1> DEFINE d == MappedEvent(s, Item(s))
           at == src[s].next
<1>1. /\ d.ref = src[s].batch[at].ref /\ d.by = s
      /\ d.governed = ClassifyGoverned(src[s].mapping, src[s].batch[at])
  BY DEF MappedEvent, Item
<1>2. CASE d \in decisions'
  <2>1. at \in r.governed => d.governed
    BY <1>1 DEF Item
  <2> HIDE DEF d
  <2> QED
    BY <1>1, <1>2, <2>1 DEF AnsweredIn
<1>3. CASE d.ref # NoRef /\ Known(d.ref)
  <2> HIDE DEF d
  <2>1. PICK e \in decisions : e.ref = d.ref
    BY <1>3 DEF Known
  <2>2. e \in decisions'
    BY ReportGrows, <2>1
  <2>3. ASSUME at \in r.governed, e.by = s
        PROVE  e.governed \/ \E j \in DOMAIN r.batch \ {at} : r.batch[j].ref = e.ref
    <3>1. PICK j \in DOMAIN src[s].batch :
            /\ e.ref = src[s].batch[j].ref
            /\ e.governed = ClassifyGoverned(src[s].mapping, src[s].batch[j])
      BY <2>3, <2>1 DEF SourceInv, DecisionsBy, OfItsBatch
    <3>2. CASE j = at
      BY <2>3, <3>1, <3>2 DEF Item
    <3>3. CASE j # at
      BY <3>1, <3>3
    <3> QED
      BY <3>2, <3>3
  <2> QED
    BY <1>1, <2>1, <2>2, <2>3 DEF AnsweredIn
<1> QED
  BY <1>2, <1>3, ReportGrows

LEMMA SourceReports ==
  ASSUME IInv, NEW s \in Sources, NEW outcome \in Outcomes, ReportRecord(s, outcome)
  PROVE  IInv'
<1> DEFINE o == src[s]
           at == src[s].next
           d == MappedEvent(s, Item(s))
           r == Summed(s, outcome)
<1>1. SourceInv(s) /\ o \in SourceRows /\ Running(s)
  BY DEF IInv, SourcesInv, SourceInv, ReportRecord
<1>2. /\ o.batch \in Seq(Items) /\ Len(o.batch) \in Nat /\ DOMAIN o.batch = 1..Len(o.batch)
      /\ o.next \in Nat /\ o.next >= 1 /\ o.next <= Len(o.batch) /\ o.batch # <<>>
  BY <1>1, BatchIsSeq DEF SourceInv, Running
<1>3. /\ decisions \subseteq decisions' /\ decisions' \subseteq decisions \cup {d}
      /\ d.by = s
  BY ReportGrows DEF ReportRecord, MappedEvent
<1>4. OfItsBatch(s, d)
  BY <1>2 DEF OfItsBatch, MappedEvent, Item
<1>5. ~(o.route = "EVENTS" /\ ~Mapped(s)) /\ o.governed \subseteq 1..(at - 1)
  BY <1>1 DEF SourceInv, Running
<1>6. /\ o.errors \in SUBSET Nat /\ o.governed \in SUBSET Nat /\ o.observeOnly \in SUBSET Nat
      /\ o.state = "RUNNING" /\ at + 1 \in Nat \ {0} /\ at \in Nat
      /\ o.errors \cup {at} \in SUBSET Nat
      /\ o.governed \cup {at} \in SUBSET Nat /\ o.observeOnly \cup {at} \in SUBSET Nat
  BY <1>1, <1>2 DEF SourceRows, Running
<1>7. ASSUME outcome = "OK" PROVE SourceInv(s)'
  <2> DEFINE g == IF ClassifyGoverned(o.mapping, Item(s)) THEN o.governed \cup {at}
                  ELSE o.governed
             u == IF ClassifyGoverned(o.mapping, Item(s)) THEN o.observeOnly
                  ELSE o.observeOnly \cup {at}
  <2>1. r = [o EXCEPT !.next = at + 1, !.governed = g, !.observeOnly = u]
    BY <1>7 DEF Summed, Counted
  <2>2. /\ g \in SUBSET Nat /\ u \in SUBSET Nat /\ g \subseteq 1..at
        /\ at \in g => ClassifyGoverned(o.mapping, Item(s))
        /\ g \subseteq o.governed \cup {at}
    BY <1>2, <1>5, <1>6
  <2>3. /\ r \in SourceRows /\ r.next = at + 1 /\ r.governed = g /\ r.state = o.state
        /\ r.errors = o.errors /\ r.route = o.route /\ r.mapping = o.mapping
        /\ r.batch = o.batch
    <3> DEFINE next == at + 1
    <3>1. o \in SourceRows /\ next \in Nat \ {0}
      BY <1>1, <1>6
    <3> HIDE DEF o, g, u, next
    <3> DEFINE q == [o EXCEPT !.next = next, !.governed = g, !.observeOnly = u]
    <3>2. /\ q \in SourceRows /\ q.next = next /\ q.governed = g /\ q.state = o.state
          /\ q.errors = o.errors /\ q.route = o.route /\ q.mapping = o.mapping
          /\ q.batch = o.batch
      BY <2>2, <3>1 DEF SourceRows
    <3>3. r = q
      BY <2>1 DEF next
    <3> HIDE DEF q, r
    <3> QED
      BY <3>2, <3>3 DEF next
  <2> HIDE DEF r, g, d
  <2>4. src'[s] = r
    BY DEF ReportRecord, Set, IInv, SourcesInv, r
  <2>5. AnsweredIn(decisions', r, s, at)
    BY <1>1, <1>7, <2>2, <2>3, ReportAnswers DEF ReportRecord
  <2>6. \A i \in 1..(r.next - 1) \ r.errors :
           \/ AnsweredIn(decisions', r, s, i)
           \/ /\ i \in 1..(o.next - 1) \ o.errors
              /\ i \in r.governed => i \in o.governed
    BY <1>2, <2>2, <2>3, <2>5
  <2>7. r.next <= Len(r.batch) + 1 /\ r.governed \subseteq 1..(r.next - 1)
    BY <1>2, <2>2, <2>3
  <2>8. r.state # "REJECTED"
    BY <1>6, <2>3
  <2>9. SourceInv(s)'
    BY <1>1, <1>2, <1>3, <1>4, <1>5, <2>3, <2>4, <2>6, <2>7, <2>8, SourceGoesOn
  <2> QED
    BY <2>9
<1>8. ASSUME outcome # "OK" /\ o.route \in Stored PROVE SourceInv(s)'
  <2>1. r = [o EXCEPT !.next = at + 1, !.errors = o.errors \cup {at}]
    BY <1>8 DEF Summed, Erred
  <2>2. /\ r \in SourceRows /\ r.next = at + 1 /\ r.governed = o.governed /\ r.state = o.state
        /\ r.errors = o.errors \cup {at} /\ r.route = o.route /\ r.mapping = o.mapping
        /\ r.batch = o.batch
    <3> DEFINE next == at + 1
               errors == o.errors \cup {at}
    <3>1. o \in SourceRows /\ next \in Nat \ {0} /\ errors \in SUBSET Nat
      BY <1>1, <1>6
    <3> HIDE DEF o, next, errors
    <3> DEFINE q == [o EXCEPT !.next = next, !.errors = errors]
    <3>2. /\ q \in SourceRows /\ q.next = next /\ q.governed = o.governed /\ q.state = o.state
          /\ q.errors = errors /\ q.route = o.route /\ q.mapping = o.mapping
          /\ q.batch = o.batch
      BY <3>1 DEF SourceRows
    <3>3. r = q
      BY <2>1 DEF next, errors
    <3> HIDE DEF q, r
    <3> QED
      BY <3>2, <3>3 DEF next, errors
  <2> HIDE DEF r, d
  <2>3. src'[s] = r
    BY DEF ReportRecord, Set, IInv, SourcesInv, r
  <2>4. \A i \in 1..(r.next - 1) \ r.errors : i \in 1..(o.next - 1) \ o.errors
    BY <1>2, <2>2
  <2>5. r.next <= Len(r.batch) + 1 /\ r.governed \subseteq 1..(r.next - 1)
    BY <1>2, <1>5, <2>2
  <2>6. r.state # "REJECTED"
    BY <1>6, <2>2
  <2> QED
    BY <1>1, <1>2, <1>3, <1>4, <1>5, <2>2, <2>3, <2>4, <2>5, <2>6, SourceGoesOn
<1>9. ASSUME outcome # "OK" /\ o.route \notin Stored PROVE SourceInv(s)'
  <2>1. r = [o EXCEPT !.state = "FAILED"]
    BY <1>9 DEF Summed, Erred
  <2>2. /\ r \in SourceRows /\ r.next = o.next /\ r.governed = o.governed
        /\ r.state = "FAILED" /\ r.errors = o.errors /\ r.route = o.route
        /\ r.mapping = o.mapping /\ r.batch = o.batch
    <3>1. o \in SourceRows
      BY <1>1
    <3> HIDE DEF o
    <3> DEFINE q == [o EXCEPT !.state = "FAILED"]
    <3>2. /\ q \in SourceRows /\ q.next = o.next /\ q.governed = o.governed
          /\ q.state = "FAILED" /\ q.errors = o.errors /\ q.route = o.route
          /\ q.mapping = o.mapping /\ q.batch = o.batch
      BY <3>1 DEF SourceRows
    <3>3. r = q
      BY <2>1
    <3> HIDE DEF q, r
    <3> QED
      BY <3>2, <3>3
  <2> HIDE DEF r, d
  <2>3. src'[s] = r
    BY DEF ReportRecord, Set, IInv, SourcesInv, r
  <2> QED
    BY <1>1, <1>2, <1>3, <1>4, <1>5, <2>2, <2>3, SourceGoesOn
<1>10. SourceInv(s)'
  BY <1>7, <1>8, <1>9
<1>11. ASSUME NEW x \in Sources, x # s PROVE SourceInv(x)'
  <2>1. src'[x] = src[x] /\ SourceInv(x)
    BY <1>11 DEF ReportRecord, Set, IInv, SourcesInv
  <2> QED
    BY <1>3, <1>11, <2>1, SourceKeeps
<1>12. src' = [x \in Sources |-> src'[x]]
  BY DEF ReportRecord, Set, IInv, SourcesInv
<1>13. ASSUME NEW c \in Calls PROVE CallInv(c)'
  <2>1. call'[c] = call[c] /\ CallInv(c) /\ c # s
    BY ConnectorsAssumption DEF ReportRecord, IInv, CallsInv
  <2> QED
    BY <1>3, <2>1, CallKeeps
<1>14. call' = call
  BY DEF ReportRecord
<1> QED
  BY <1>10, <1>11, <1>12, <1>13, <1>14 DEF IInv, CallsInv, SourcesInv

\* The sources and the calls leave each other alone, but for what they record.
LEMMA OthersKeep ==
  ASSUME SourcesInv, src' = src, decisions \subseteq decisions',
         \A d \in decisions' \ decisions : d.by \in Calls
  PROVE  SourcesInv'
  BY ConnectorsAssumption, SourceKeeps DEF SourcesInv

LEMMA RestartStep ==
  ASSUME IInv, Restart
  PROVE  IInv'
<1>1. CallsInv'
  BY CallsAreCutOff DEF Restart, IInv
<1>2. ASSUME NEW s \in Sources PROVE SourceInv(s)'
  <2>1. SourceInv(s) /\ src[s] \in SourceRows /\ decisions' = decisions
    BY DEF IInv, SourcesInv, SourceInv, Restart
  <2>2. CASE src[s].state # "RUNNING"
    <3>1. src'[s] = src[s]
      BY <2>2 DEF Restart
    <3> QED
      BY <2>1, <3>1, SourceKeeps
  <2>3. CASE src[s].state = "RUNNING"
    <3> DEFINE r == [src[s] EXCEPT !.state = "FAILED"]
    <3>1. src'[s] = r
      BY <2>3 DEF Restart
    <3>2. /\ r \in SourceRows /\ r.next = src[s].next /\ r.governed = src[s].governed
          /\ r.state = "FAILED" /\ r.errors = src[s].errors /\ r.route = src[s].route
          /\ r.mapping = src[s].mapping /\ r.batch = src[s].batch
      BY <2>1 DEF SourceRows
    <3> HIDE DEF r
    <3>3. /\ r.batch # <<>> /\ r.next <= Len(r.batch) + 1
          /\ r.governed \subseteq 1..(r.next - 1)
          /\ ~(r.route = "EVENTS" /\ ~Mapped(s))
      BY <2>1, <2>3, <3>2 DEF SourceInv
    <3> QED
      BY <2>1, <3>1, <3>2, <3>3, SourceGoesOn
  <2> QED
    BY <2>2, <2>3
<1>3. src' = [s \in Sources |-> src'[s]]
  BY DEF Restart
<1> QED
  BY <1>1, <1>2, <1>3 DEF IInv, SourcesInv

------------------------------------------------------------------------------
(* The theorems *)

LEMMA InitHolds == ConnectorsInit => IInv
<1> SUFFICES ASSUME ConnectorsInit PROVE IInv
  OBVIOUS
<1>1. CallsInv
  <2>1. NoCall \in Rows(NoRef, EmptyUsage, EmptyUsage, <<>>) /\ NoCall.phase = "IDLE"
          /\ NoCall.answer = "NONE"
    BY DEF NoCall, Rows, Before, Answers
  <2>2. \A c \in Calls : call[c] = NoCall /\ DecisionsBy(c) = {}
    BY DEF ConnectorsInit, GatewaysInit, DecisionsBy
  <2>3. \A c \in Calls : CallInv(c)
    BY <2>1, <2>2 DEF CallInv, IsCall, Rows, Before, Unrecorded
  <2> QED
    BY <2>3 DEF CallsInv, ConnectorsInit, GatewaysInit
<1>2. SourcesInv
  <2>1. NoSource \in SourceRows
    BY DEF NoSource, SourceRows, Routes, Mappings, DefaultMapping
  <2>2. NoSource.next = 1 /\ NoSource.governed = {} /\ NoSource.state = "IDLE"
          /\ NoSource.batch = <<>>
    BY DEF NoSource
  <2>3. \A s \in Sources : src[s] = NoSource /\ DecisionsBy(s) = {}
    BY DEF ConnectorsInit, GatewaysInit, DecisionsBy
  <2>4. \A s \in Sources : SourceInv(s)
    BY <2>1, <2>2, <2>3 DEF SourceInv
  <2> QED
    BY <2>4 DEF SourcesInv, ConnectorsInit
<1> QED
  BY <1>1, <1>2 DEF IInv

LEMMA IInvStep ==
  ASSUME IInv, [Next]_vars
  PROVE  IInv'
<1>1. ASSUME NEW c \in Calls, src' = src,
             \/ Ask(c) \/ Refused(c) \/ Streamed(c) \/ Answered(c)
             \/ Event(c) \/ Rest(c) \/ End(c)
      PROVE  IInv'
  <2>1. decisions' = decisions
    BY <1>1 DEF Ask, Refused, Streamed, Answered, Event, Rest, End
  <2> QED
    BY <1>1, <2>1, CallStep, OthersKeep DEF IInv
<1>2. ASSUME NEW c \in Calls, src' = src, Record(c) PROVE IInv'
  <2>1. CallsInv' /\ decisions \subseteq decisions' /\ \A d \in decisions' \ decisions : d.by = c
    BY <1>2, CallRecords DEF IInv
  <2> QED
    BY <1>2, <2>1, OthersKeep DEF IInv
<1>3. ASSUME UNCHANGED gatewayVars PROVE CallsInv'
  BY <1>3, CallKeeps DEF gatewayVars, IInv, CallsInv
<1>4. ASSUME NEW s \in Sources,
             Prepare(s) \/ Deliver(s) \/ Unpulled(s) \/ Skip(s) \/ Finish(s)
      PROVE  IInv'
  <2>1. UNCHANGED gatewayVars
    BY <1>4 DEF Prepare, Deliver, Unpulled, Skip, Finish
  <2> QED
    BY <1>3, <1>4, <2>1, SourceMoves DEF IInv
<1>5. CASE UNCHANGED vars
  <2>1. UNCHANGED gatewayVars /\ src' = src
    BY <1>5 DEF vars
  <2> QED
    BY <1>3, <2>1, OthersKeep DEF IInv, gatewayVars
<1> QED
  BY <1>1, <1>2, <1>4, <1>5, SourceReports, RestartStep DEF Next, CallNext, SourceNext

LEMMA Invariance == Spec => []IInv
  BY InitHolds, IInvStep, PTL DEF Spec

\* Whatever is lost or cut off, no header of the OpenAI gateway says that a call was
\* recorded, or that it was not, when it is otherwise.
THEOREM HeadersHold == Spec => []HeadersAreHonest
<1>1. IInv => HeadersAreHonest
  BY DEF IInv, CallsInv, CallInv, HeadersAreHonest, Unrecorded
<1> QED
  BY <1>1, Invariance, PTL

\* However often a batch is delivered, its summary passes over no record that is not in the
\* record, and a batch refused has reported nothing.
THEOREM SummariesHold == Spec => []SummariesAnswerForAll
<1>1. IInv => SummariesAnswerForAll
  BY DEF IInv, SourcesInv, SourceInv, AnsweredIn, SummariesAnswerForAll
<1> QED
  BY <1>1, Invariance, PTL

------------------------------------------------------------------------------
(* What a call costs *)

\* Some naturals have a least one.
LEMMA NatMin ==
  ASSUME NEW T, T \subseteq Nat, T # {}
  PROVE  \E m \in T : \A n \in T : m <= n
<1>1. PICK R : IsWellFoundedOn(R, Nat) /\ \A x, y \in Nat : x < y => <<x, y>> \in R
  <2>1. \A x, y \in Nat : x < y => <<x, y>> \in OpToRel(<, Nat)
    BY DEF OpToRel
  <2>2. IsWellFoundedOn(OpToRel(<, Nat), Nat)
    BY NatLessThanWellFounded
  <2> QED
    BY <2>1, <2>2, Zenon
<1>2. IsWellFoundedOn(R, Nat)
  BY <1>1
<1>3. PICK m \in T : \A n \in T : ~ (<<n, m>> \in R)
  BY <1>2, WFMin, Zenon
<1>4. \A n \in T : m <= n
  <2> TAKE n \in T
  <2>1. ~ n < m
    BY <1>1, <1>3
  <2> QED
    BY <2>1
<1> QED
  BY <1>4

\* A name without its version is a name.
LEMMA RootLen ==
  ASSUME NEW m \in Seq(STRING)
  PROVE  Len(Root(m)) \in Nat
<1>1. Len(m) \in Nat
  OBVIOUS
<1>2. CASE Len(m) > 1 /\ m[Len(m)] \in Versions
  <2>1. Root(m) = SubSeq(m, 1, Len(m) - 1)
    BY <1>2 DEF Root
  <2>2. Len(SubSeq(m, 1, Len(m) - 1)) = Len(m) - 1
    BY <1>1, <1>2
  <2> QED
    BY <1>1, <1>2, <2>1, <2>2
<1>3. CASE ~(Len(m) > 1 /\ m[Len(m)] \in Versions)
  BY <1>1, <1>3 DEF Root
<1> QED
  BY <1>2, <1>3

Longest(m) ==
  {n \in Families(m) : \A o \in Families(m) : Len(Root(o)) <= Len(Root(n))}

\* The table's lookup ends at one of the longest families, and fails only when there is none.
LEMMA EntriesAreLongest ==
  ASSUME NEW m \in Seq(STRING), GatewaysAssumption
  PROVE  /\ Entries(m) \subseteq Longest(m)
         /\ Families(m) # {} => Entries(m) # {}
<1> DEFINE len(n) == Len(Root(n))
           exact == {n \in DOMAIN Price : n = m}
           byRoot == {n \in DOMAIN Price : Root(n) = Root(m)}
           prefix == {n \in DOMAIN Price : Extends(Root(m), Root(n))}
           best == {n \in prefix : \A o \in prefix : len(o) <= len(n)}
<1>1. len(m) \in Nat /\ \A n \in DOMAIN Price : len(n) \in Nat
  BY RootLen DEF GatewaysAssumption
<1>2. \A n \in prefix : len(n) < len(m)
  BY DEF Extends
<1>3. Families(m) = byRoot \cup prefix /\ exact \subseteq byRoot
  BY DEF Families
<1>4. Entries(m) = IF exact # {} THEN exact ELSE IF byRoot # {} THEN byRoot ELSE best
  BY DEF Entries
<1> HIDE DEF exact
<1>5. ASSUME NEW n \in byRoot PROVE n \in Longest(m)
  <2>1. len(n) = len(m) /\ \A o \in Families(m) : len(o) <= len(n)
    BY <1>1, <1>2, <1>3
  <2> QED
    BY <1>3, <2>1 DEF Longest
<1>6. ASSUME byRoot = {} PROVE best \subseteq Longest(m) /\ (prefix # {} => best # {})
  <2>1. best \subseteq Longest(m)
    BY <1>3, <1>6 DEF Longest
  <2>2. ASSUME prefix # {} PROVE best # {}
    <3> DEFINE gap(n) == len(m) - len(n)
               gaps == {gap(n) : n \in prefix}
    <3>1. gaps \subseteq Nat /\ gaps # {}
      BY <1>1, <1>2, <2>2
    <3>2. PICK g \in gaps : \A h \in gaps : g <= h
      <4> HIDE DEF gaps
      <4> QED
        BY <3>1, NatMin
    <3>3. PICK n \in prefix : g = gap(n)
      OBVIOUS
    <3>4. \A o \in prefix : gap(n) <= gap(o)
      BY <3>2, <3>3
    <3>5. \A o \in prefix : len(o) <= len(n)
      BY <1>1, <3>4
    <3> QED
      BY <3>5
  <2> QED
    BY <2>1, <2>2
<1> HIDE DEF byRoot, prefix, best, len
<1> QED
  BY <1>3, <1>4, <1>5, <1>6

\* The price of a call is what it owes.
LEMMA UsdIsOwed ==
  ASSUME NEW u, u.model \in Models \cup {Null}, GatewaysAssumption
  PROVE  Usd(u) \in Owed(u)
<1> DEFINE amount(n) == Amount(u.input) * Price[n].input + Amount(u.output) * Price[n].output
<1>1. CASE u.model = Null \/ ~HasTokens(u)
  BY <1>1 DEF Usd, Owed
<1>2. CASE ~(u.model = Null \/ ~HasTokens(u))
  <2> DEFINE m == u.model
             n == CHOOSE n \in Entries(m) : TRUE
  <2>1. /\ Entries(m) \subseteq Longest(m)
        /\ Families(m) # {} => Entries(m) # {}
    BY <1>2, EntriesAreLongest DEF GatewaysAssumption
  <2>2. CASE Families(m) = {}
    <3>1. Entries(m) = {}
      BY <2>1, <2>2 DEF Longest
    <3> QED
      BY <1>2, <2>2, <3>1 DEF Usd, Owed
  <2>3. CASE Families(m) # {}
    <3>1. n \in Longest(m)
      BY <2>1, <2>3
    <3>2. Usd(u) = amount(n)
      BY <1>2, <2>1, <2>3 DEF Usd
    <3>3. Owed(u) = {amount(x) : x \in Longest(m)}
      BY <1>2, <2>3 DEF Owed, Longest
    <3> HIDE DEF amount, n, m
    <3> QED
      BY <3>1, <3>2, <3>3
  <2> QED
    BY <2>2, <2>3
<1> QED
  BY <1>1, <1>2

\* What is heard of a stream between events is what was said; of an event that has come in
\* part the rest makes the difference. What was recorded of a call was said of it.
MeterInv(c) ==
  LET k == call[c]
  IN /\ k.said.model \in Models \cup {Null}
     /\ k.rest = <<>> => k.heard = k.said
     /\ k.phase \in {"IDLE", "UPSTREAM"} => k.rest = <<>>
     /\ k.phase = "STREAM" /\ k.rest # <<>> => ReduceSseUsage(k.heard, k.rest[1]) = k.said
     /\ \A d \in DecisionsBy(c) : k.rest = <<>> =>
          /\ d.tokens = IF HasTokens(k.said) THEN Amount(k.said.input) + Amount(k.said.output)
                        ELSE Null
          /\ d.usd \in IF k.vendor = "ANTHROPIC" THEN Owed(k.said) ELSE {Null}

MetersInv == \A c \in Calls : MeterInv(c)

\* A call that is not in this step.
LEMMA MeterKeeps ==
  ASSUME NEW c \in Calls, MeterInv(c), call'[c] = call[c],
         \A d \in decisions' \ decisions : d.by # c
  PROVE  MeterInv(c)'
<1>1. DecisionsBy(c)' \subseteq DecisionsBy(c)
  BY DEF DecisionsBy
<1> QED
  BY <1>1 DEF MeterInv

\* A call that goes on has left no decision: only its meter counts.
LEMMA MeterGoesOn ==
  ASSUME CallsInv, MetersInv, NEW c \in Calls, NEW k, call' = [call EXCEPT ![c] = k],
         decisions' = decisions, call[c].phase \in Before,
         k.said.model \in Models \cup {Null},
         k.rest = <<>> => k.heard = k.said,
         k.phase \in {"IDLE", "UPSTREAM"} => k.rest = <<>>,
         k.phase = "STREAM" /\ k.rest # <<>> => ReduceSseUsage(k.heard, k.rest[1]) = k.said
  PROVE  MetersInv'
<1>1. \A x \in Calls : call'[x] = IF x = c THEN k ELSE call[x]
  BY DEF CallsInv
<1>2. DecisionsBy(c)' = {}
  BY DEF DecisionsBy, CallsInv, CallInv
<1>3. MeterInv(c)'
  BY <1>1, <1>2 DEF MeterInv
<1>4. \A x \in Calls : x # c => MeterInv(x)'
  BY <1>1, MeterKeeps DEF MetersInv
<1> QED
  BY <1>3, <1>4 DEF MetersInv

\* The first event of a stream gives all that is known, a later one the output so far.
LEMMA EventIsHeard ==
  ASSUME NEW c, NEW e \in Events(c), call[c].heard = call[c].said,
         call[c].said.model \in Models \cup {Null}
  PROVE  LET said == IF e.type = "START" THEN e.usage
                     ELSE [call[c].said EXCEPT !.output = e.usage.output]
         IN /\ Heard(c, e) = said
            /\ said.model \in Models \cup {Null}
<1> DEFINE u == call[c].said
<1>1. CASE u = EmptyUsage
  <2>1. PICK v \in UsageOf(c) : e = [type |-> "START", usage |-> v]
    BY <1>1 DEF Events
  <2>2. e.type = "START" /\ e.usage = v
    BY <2>1
  <2>3. v = [id |-> v.id, model |-> v.model, input |-> v.input, output |-> v.output]
          /\ v.model \in Models
    BY DEF UsageOf
  <2>4. Started(EmptyUsage, v) = v
    <3>1. Started(EmptyUsage, v) =
            [id |-> v.id, model |-> v.model, input |-> v.input, output |-> v.output]
      BY DEF Started, EmptyUsage, Or
    <3> QED
      BY <2>3, <3>1
  <2> QED
    BY <1>1, <2>2, <2>3, <2>4 DEF Heard, ReduceSseUsage
<1>2. CASE u # EmptyUsage
  <2>1. PICK n : e = [type |-> "DELTA", usage |-> [output |-> n]]
    BY <1>2 DEF Events
  <2>2. e.type = "DELTA" /\ e.usage.output = n
    BY <2>1
  <2>3. [u EXCEPT !.output = n].model = u.model
    OBVIOUS
  <2> QED
    BY <2>2, <2>3 DEF Heard, ReduceSseUsage
<1> QED
  BY <1>1, <1>2

LEMMA MeterStep ==
  ASSUME CallsInv, MetersInv, NEW c \in Calls,
         \/ Ask(c) \/ Refused(c) \/ Streamed(c) \/ Answered(c)
         \/ Event(c) \/ Rest(c) \/ End(c)
  PROVE  MetersInv'
<1> DEFINE k == call[c]
<1>1. decisions' = decisions
  BY DEF Ask, Refused, Streamed, Answered, Event, Rest, End
<1>2. PICK at, said, heard, rest : k \in Rows(at, said, heard, rest)
  BY DEF CallsInv, CallInv, IsCall
<1>3. k.phase \in Before
  BY DEF Ask, Refused, Streamed, Answered, Event, Rest, End, Before
<1>4. MeterInv(c)
  BY DEF MetersInv
<1>5. ASSUME NEW n, call' = [call EXCEPT ![c] = n],
             n.said = k.said, n.heard = k.heard, n.rest = k.rest,
             n.phase \in {"IDLE", "UPSTREAM", "STREAM"} => k.rest = <<>>
      PROVE  MetersInv'
  BY <1>1, <1>3, <1>4, <1>5, MeterGoesOn DEF MeterInv
<1> HIDE DEF k
<1>6. CASE Ask(c)
  <2>1. PICK vendor \in {"OPENAI", "ANTHROPIC"}, stream \in BOOLEAN, t \in Instants :
          Become(c, [k EXCEPT !.phase = "UPSTREAM", !.vendor = vendor, !.stream = stream,
                              !.at = t])
    BY <1>6 DEF Ask, k
  <2> DEFINE n == [k EXCEPT !.phase = "UPSTREAM", !.vendor = vendor, !.stream = stream,
                            !.at = t]
  <2>2. n.said = k.said /\ n.heard = k.heard /\ n.rest = k.rest
    BY <1>2 DEF Rows
  <2>3. call' = [call EXCEPT ![c] = n]
    BY <2>1 DEF Become
  <2>4. k.rest = <<>>
    BY <1>4, <1>6 DEF MeterInv, Ask, k
  <2> HIDE DEF n
  <2> QED
    BY <1>5, <2>2, <2>3, <2>4
<1>7. ASSUME NEW a, Answer(c, a) PROVE MetersInv'
  <2> DEFINE n == [k EXCEPT !.phase = "DONE", !.answer = a]
  <2>1. n.said = k.said /\ n.heard = k.heard /\ n.rest = k.rest /\ n.phase = "DONE"
    BY <1>2 DEF Rows
  <2>2. call' = [call EXCEPT ![c] = n]
    BY <1>7 DEF Answer, Become, k
  <2> HIDE DEF n
  <2> QED
    BY <1>5, <2>1, <2>2
<1>8. CASE Refused(c)
  BY <1>7, <1>8 DEF Refused
<1>9. CASE Streamed(c)
  <2>1. CASE k.vendor = "OPENAI"
    BY <1>7, <1>9, <2>1 DEF Streamed, k
  <2>2. CASE k.vendor # "OPENAI"
    <3>1. PICK body \in BOOLEAN :
            Become(c, [k EXCEPT !.answer = "STREAMING",
                                !.phase = IF body THEN "STREAM" ELSE "RECORD"])
      BY <1>9, <2>2 DEF Streamed, k
    <3> DEFINE n == [k EXCEPT !.answer = "STREAMING",
                              !.phase = IF body THEN "STREAM" ELSE "RECORD"]
    <3>2. n.said = k.said /\ n.heard = k.heard /\ n.rest = k.rest
      BY <1>2 DEF Rows
    <3>3. call' = [call EXCEPT ![c] = n]
      BY <3>1 DEF Become
    <3>4. k.rest = <<>>
      BY <1>4, <1>9 DEF MeterInv, Streamed, k
    <3> HIDE DEF n
    <3> QED
      BY <1>5, <3>2, <3>3, <3>4
  <2> QED
    BY <2>1, <2>2
<1>10. CASE Answered(c)
  <2>1. CASE Answer(c, "RECORDED_NO_USAGE")
    BY <1>7, <2>1
  <2>2. ASSUME NEW u \in UsageOf(c),
               Become(c, [k EXCEPT !.phase = "RECORD", !.said = u, !.heard = u])
        PROVE  MetersInv'
    <3> DEFINE n == [k EXCEPT !.phase = "RECORD", !.said = u, !.heard = u]
    <3>1. n.said = u /\ n.heard = u /\ n.phase = "RECORD"
      BY <1>2 DEF Rows
    <3>2. call' = [call EXCEPT ![c] = n]
      BY <2>2 DEF Become
    <3>3. u.model \in Models
      BY DEF UsageOf
    <3> HIDE DEF n
    <3> QED
      BY <1>1, <1>3, <3>1, <3>2, <3>3, MeterGoesOn DEF k
  <2> QED
    BY <1>10, <2>1, <2>2 DEF Answered, k
<1>11. CASE Event(c)
  <2>1. PICK e \in Events(c), whole \in BOOLEAN :
          Become(c, [k EXCEPT
            !.said = IF e.type = "START" THEN e.usage ELSE [@ EXCEPT !.output = e.usage.output],
            !.heard = IF whole THEN Heard(c, e) ELSE @,
            !.rest = IF whole THEN <<>> ELSE <<e>>])
    BY <1>11 DEF Event, k
  <2> DEFINE said2 == IF e.type = "START" THEN e.usage
                      ELSE [k.said EXCEPT !.output = e.usage.output]
             heard2 == IF whole THEN Heard(c, e) ELSE k.heard
             rest2 == IF whole THEN <<>> ELSE <<e>>
             n == [k EXCEPT !.said = said2, !.heard = heard2, !.rest = rest2]
  <2>2. call' = [call EXCEPT ![c] = n] /\ k.phase = "STREAM" /\ k.rest = <<>>
    BY <1>11, <2>1 DEF Event, Become, k
  <2>3. k.heard = k.said /\ k.said.model \in Models \cup {Null}
    BY <1>4, <2>2 DEF MeterInv, k
  <2>4. Heard(c, e) = said2 /\ said2.model \in Models \cup {Null}
    BY <2>3, EventIsHeard DEF k
  <2>5. ReduceSseUsage(k.heard, e) = said2
    BY <2>4 DEF Heard, k
  <2>6. /\ rest2 = <<>> => heard2 = said2
        /\ rest2 # <<>> => ReduceSseUsage(heard2, rest2[1]) = said2
    BY <2>4, <2>5
  <2> HIDE DEF said2, heard2, rest2
  <2>7. n.said = said2 /\ n.heard = heard2 /\ n.rest = rest2 /\ n.phase = "STREAM"
    BY <1>2, <2>2 DEF Rows
  <2> HIDE DEF n
  <2> QED
    BY <1>1, <1>3, <2>2, <2>4, <2>6, <2>7, MeterGoesOn DEF k
<1>12. CASE Rest(c)
  <2> DEFINE now == Heard(c, k.rest[1])
             n == [k EXCEPT !.heard = now, !.rest = <<>>]
  <2>1. call' = [call EXCEPT ![c] = n] /\ k.phase = "STREAM" /\ k.rest # <<>>
    BY <1>12 DEF Rest, Become, k
  <2>2. now = k.said /\ k.said.model \in Models \cup {Null}
    BY <1>4, <2>1 DEF MeterInv, Heard, k
  <2> HIDE DEF now
  <2>3. n.said = k.said /\ n.heard = now /\ n.rest = <<>>
    BY <1>2 DEF Rows
  <2> HIDE DEF n
  <2> QED
    BY <1>1, <1>3, <2>1, <2>2, <2>3, MeterGoesOn DEF k
<1>13. CASE End(c)
  <2>1. PICK phase \in {"RECORD", "DONE"} : Become(c, [k EXCEPT !.phase = phase])
    BY <1>13 DEF End, k
  <2> DEFINE n == [k EXCEPT !.phase = phase]
  <2>2. n.said = k.said /\ n.heard = k.heard /\ n.rest = k.rest /\ n.phase = phase
    BY <1>2 DEF Rows
  <2>3. call' = [call EXCEPT ![c] = n]
    BY <2>1 DEF Become
  <2> HIDE DEF n
  <2> QED
    BY <1>5, <2>2, <2>3
<1> QED
  BY <1>6, <1>8, <1>9, <1>10, <1>11, <1>12, <1>13

\* A call that has come to its end keeps what was said and heard of it.
LEMMA MeterStops ==
  ASSUME NEW c \in Calls, MeterInv(c), decisions' = decisions,
         call'[c] = [call[c] EXCEPT !.phase = "DONE"], IsCall(call[c])
  PROVE  MeterInv(c)'
<1> DEFINE k == call[c]
           n == [k EXCEPT !.phase = "DONE"]
<1>1. /\ n.said = k.said /\ n.heard = k.heard /\ n.rest = k.rest /\ n.vendor = k.vendor
      /\ n.phase = "DONE"
  BY DEF IsCall, Rows
<1>2. call'[c] = n /\ DecisionsBy(c)' = DecisionsBy(c)
  BY DEF DecisionsBy
<1> HIDE DEF n
<1> QED
  BY <1>1, <1>2 DEF MeterInv

\* The decision of a call is what was heard of it, at its price.
LEMMA MeterRecords ==
  ASSUME CallsInv, MetersInv, NEW c \in Calls, Record(c), GatewaysAssumption
  PROVE  MetersInv'
<1> DEFINE k == call[c]
           d == DecisionOf(c)
<1>1. PICK outcome \in Outcomes : Report(d, outcome) /\ Answer(c, AnswerOf(c, outcome))
  BY DEF Record
<1> DEFINE a == AnswerOf(c, outcome)
           n == [k EXCEPT !.phase = "DONE", !.answer = a]
<1>2. PICK at, said, heard, rest : k \in Rows(at, said, heard, rest)
  BY DEF CallsInv, CallInv, IsCall
<1> HIDE DEF a
<1>3. /\ n.said = k.said /\ n.heard = k.heard /\ n.rest = k.rest /\ n.vendor = k.vendor
      /\ n.phase = "DONE"
  BY <1>2 DEF Rows
<1>4. call' = [call EXCEPT ![c] = n]
  BY <1>1 DEF Answer, Become, a
<1>5. \A x \in Calls : call'[x] = IF x = c THEN n ELSE call[x]
  BY <1>4 DEF CallsInv
<1>6. decisions' \subseteq decisions \cup {d}
  BY <1>1, ReportGrows
<1>7. d.by = c
  BY DEF DecisionOf
<1>8. DecisionsBy(c)' \subseteq {d}
  <2>1. DecisionsBy(c) = {}
    BY DEF CallsInv, CallInv, Record, Before
  <2> HIDE DEF d
  <2> QED
    BY <1>6, <2>1 DEF DecisionsBy
<1>9. MeterInv(c)
  BY DEF MetersInv
<1>10. ASSUME k.rest = <<>>
       PROVE  /\ d.tokens = IF HasTokens(k.said) THEN Amount(k.said.input) + Amount(k.said.output)
                            ELSE Null
              /\ d.usd \in IF k.vendor = "ANTHROPIC" THEN Owed(k.said) ELSE {Null}
  <2>1. k.heard = k.said /\ k.said.model \in Models \cup {Null}
    BY <1>9, <1>10 DEF MeterInv
  <2>2. Usd(k.said) \in Owed(k.said)
    BY <2>1, UsdIsOwed
  <2>3. /\ d.tokens = IF HasTokens(k.heard) THEN Amount(k.heard.input) + Amount(k.heard.output)
                      ELSE Null
        /\ d.usd = IF k.vendor = "ANTHROPIC" THEN Usd(k.heard) ELSE Null
    BY DEF DecisionOf
  <2> HIDE DEF d
  <2> QED
    BY <2>1, <2>2, <2>3
<1> HIDE DEF d, n
<1>11. MeterInv(c)'
  BY <1>3, <1>5, <1>8, <1>9, <1>10 DEF MeterInv
<1>12. \A x \in Calls : x # c => MeterInv(x)'
  BY <1>5, <1>6, <1>7, MeterKeeps DEF MetersInv
<1> QED
  BY <1>11, <1>12 DEF MetersInv

LEMMA MetersInit == ConnectorsInit => MetersInv
<1> SUFFICES ASSUME ConnectorsInit, NEW c \in Calls PROVE MeterInv(c)
  BY DEF MetersInv
<1>1. call[c] = NoCall /\ DecisionsBy(c) = {}
  BY DEF ConnectorsInit, GatewaysInit, DecisionsBy
<1>2. NoCall.said.model = Null /\ NoCall.heard = NoCall.said /\ NoCall.rest = <<>>
  BY DEF NoCall, EmptyUsage
<1> QED
  BY <1>1, <1>2 DEF MeterInv

LEMMA MetersStep ==
  ASSUME IInv, MetersInv, [Next]_vars
  PROVE  MetersInv'
<1>1. ASSUME UNCHANGED gatewayVars PROVE MetersInv'
  BY <1>1, MeterKeeps DEF gatewayVars, MetersInv
<1>2. ASSUME NEW s \in Sources,
             Prepare(s) \/ Deliver(s) \/ Unpulled(s) \/ Skip(s) \/ Finish(s)
      PROVE  MetersInv'
  BY <1>1, <1>2 DEF Prepare, Deliver, Unpulled, Skip, Finish
<1>3. ASSUME NEW s \in Sources, NEW outcome \in Outcomes, ReportRecord(s, outcome)
      PROVE  MetersInv'
  <2> DEFINE d == MappedEvent(s, Item(s))
  <2>1. decisions' \subseteq decisions \cup {d} /\ d.by = s /\ call' = call
    BY <1>3, ReportGrows DEF ReportRecord, MappedEvent
  <2> HIDE DEF d
  <2>2. \A c \in Calls : c # s
    BY <1>3, ConnectorsAssumption
  <2> QED
    BY <2>1, <2>2, MeterKeeps DEF MetersInv
<1>4. ASSUME Restart, NEW c \in Calls PROVE MeterInv(c)'
  <2>1. decisions' = decisions /\ MeterInv(c) /\ IsCall(call[c])
    BY <1>4 DEF Restart, MetersInv, IInv, CallsInv, CallInv
  <2>2. call'[c] = IF call[c].phase = "IDLE" THEN call[c] ELSE [call[c] EXCEPT !.phase = "DONE"]
    BY <1>4 DEF Restart, CutOff
  <2> QED
    BY <2>1, <2>2, MeterKeeps, MeterStops
<1>5. CASE UNCHANGED vars
  BY <1>1, <1>5 DEF vars
<1> QED
  BY <1>2, <1>3, <1>4, <1>5, MeterStep, MeterRecords, GatewaysAssumption
  DEF Next, CallNext, SourceNext, IInv, MetersInv

\* A recorded call has cost what its upstream said last, at its model's price, whatever the
\* table of prices and however the stream was cut; only a stream that ended inside an event
\* is recorded without that event.
THEOREM CostsHold == Spec => []CostsAreWhatWasSaid
<1>1. IInv /\ MetersInv /\ [Next]_vars => MetersInv'
  BY MetersStep
<1>2. MetersInv => CostsAreWhatWasSaid
  BY DEF MetersInv, MeterInv, CostsAreWhatWasSaid
<1> QED
  BY <1>1, <1>2, MetersInit, Invariance, PTL DEF Spec
=============================================================================
