-------------------------- MODULE TransactionsProofs --------------------------
(***************************************************************************)
(* The theorems of TaskTransactions, for any number of sessions, tasks and *)
(* requests and every policy: what survives of the lifecycle when requests *)
(* on one task interleave, and where they can deadlock. Liveness is left   *)
(* to the model checker.                                                   *)
(*                                                                         *)
(* Until its commit a request changes nothing but its session and the      *)
(* locks it holds. The invariant therefore says of each session, by        *)
(* itself, what its request has read, written and locked by the statement  *)
(* it is at (SessionInv), and one lemma says that it does not mind what    *)
(* the others do (OthersKeep).                                             *)
(***************************************************************************)
EXTENDS TaskTransactions, TLAPS, SequenceTheorems, FiniteSetTheorems

RowOrNone == SoundRows \cup {NoRow}

------------------------------------------------------------------------------
(* The rows that the lifecycle leaves *)

\* Where the bands above and below a mode are.
LEMMA BandsAreSound ==
  /\ \A m \in Operating : OneBandDown(m) \in {"SHADOW", "CO_PILOT", "SUSPENDED"}
  /\ \A m \in {"CO_PILOT", "SOLO"} : OneBandDown(m) \in {"SHADOW", "CO_PILOT"}
  /\ \A m \in Modes : NextBandUp(m) = NoBand \/ NextBandUp(m) \in {"CO_PILOT", "SOLO"}
  BY DEF Operating, Modes, OneBandDown, NextBandUp, NoBand

\* A row without an offer is sound, whatever its counters are.
LEMMA NoOfferIsSound ==
  ASSUME NEW mode \in Modes \ {"RETIRED"}, NEW ready \in Nat, NEW below \in Nat,
         NEW lost \in Nat, NEW baseline \in Ranks \cup {NoRank}
  PROVE  MkState(mode, ready, below, NoPending, lost, baseline) \in SoundRows
  BY DEF MkState, SoundRows, LifecycleStates, PendingPromotions, Whole, HasPending

\* What a sound row is made of.
LEMMA SoundRowType ==
  ASSUME NEW row \in SoundRows
  PROVE  /\ row.effectiveMode \in Modes \ {"RETIRED"}
         /\ row.ready \in Nat /\ row.subFloor \in Nat /\ row.insufficient \in Nat
         /\ row.lastImpliedRank \in Ranks \cup {NoRank}
         /\ row.pending \in PendingPromotions
         /\ row # NoRow
  BY DEF SoundRows, LifecycleStates, NoRow, MkState, NoBand, Modes, Operating

\* A sound row with an offer works at a band that has one above it.
LEMMA OfferFromBelow ==
  ASSUME NEW row \in SoundRows, HasPending(row)
  PROVE  /\ row.effectiveMode \in {"SHADOW", "CO_PILOT"}
         /\ row.pending \in [toMode : {"CO_PILOT", "SOLO"}, awaitingApproval : BOOLEAN]
         /\ row.pending.toMode = NextBandUp(row.effectiveMode)
<1>1. row.pending \in [toMode : {"CO_PILOT", "SOLO"}, awaitingApproval : BOOLEAN]
  BY SoundRowType DEF HasPending, PendingPromotions
<1>2. row.pending.toMode = NextBandUp(row.effectiveMode)
  BY DEF SoundRows, Whole
<1> QED BY <1>1, <1>2, SoundRowType DEF NextBandUp, NoBand, Modes, Operating

\* So is a row that offers the next band up.
LEMMA OfferIsSound ==
  ASSUME NEW mode \in {"SHADOW", "CO_PILOT"}, NEW lost \in Nat, NEW awaiting \in BOOLEAN,
         NEW baseline \in Ranks \cup {NoRank}
  PROVE  MkState(mode, 0, 0, [toMode |-> NextBandUp(mode), awaitingApproval |-> awaiting],
                 lost, baseline) \in SoundRows
<1>1. mode \in Modes \ {"RETIRED"} /\ NextBandUp(mode) \in {"CO_PILOT", "SOLO"}
  BY DEF Modes, Operating, NextBandUp
<1> QED BY <1>1 DEF MkState, SoundRows, LifecycleStates, PendingPromotions, Whole, HasPending

\* The two steps of the engine that take most cases.
LEMMA ScoredStepIsSound ==
  ASSUME NEW row \in SoundRows, row.effectiveMode \in Operating, NEW r \in Readings,
         Scored(r)
  PROVE  /\ ScoredStep(row, r).state \in SoundRows
<1> USE SoundRowType
<1>0. r.impliedRank \in Ranks
  BY DEF Readings, Scored
<1>1. RegressionStep(row, r).state \in SoundRows
  <2>1. OneBandDown(row.effectiveMode) \in Modes \ {"RETIRED"}
    BY BandsAreSound DEF Modes, Operating
  <2>2. Fall(row, OneBandDown(row.effectiveMode), "SCORE_CROSS", r.impliedRank).state
          \in SoundRows
    BY <2>1, <1>0, NoOfferIsSound DEF Fall, Result
  <2>3. Hold(MkState(row.effectiveMode, 0, row.subFloor + 1, NoPending, 0,
                     row.lastImpliedRank)).state \in SoundRows
    BY NoOfferIsSound DEF Hold, Result
  <2> QED BY <2>2, <2>3 DEF RegressionStep
<1>2. HasPending(row) => PendingStep(row, r).state \in SoundRows
  BY <1>0, OfferFromBelow, OfferIsSound DEF PendingStep, Result
<1>3. PromotionReady(row, r) => ReadyStep(row, r).state \in SoundRows
  <2> SUFFICES ASSUME PromotionReady(row, r) PROVE ReadyStep(row, r).state \in SoundRows
    OBVIOUS
  <2>1. row.effectiveMode \in {"SHADOW", "CO_PILOT"}
    BY DEF PromotionReady, NextBandUp, NoBand, Operating
  <2>2. MkState(row.effectiveMode, 0, 0,
                [toMode |-> NextBandUp(row.effectiveMode), awaitingApproval |-> FALSE],
                0, r.impliedRank) \in SoundRows
    BY <2>1, <1>0, OfferIsSound
  <2>3. MkState(row.effectiveMode, row.ready + 1, 0, NoPending, 0, r.impliedRank)
          \in SoundRows
    BY <1>0, NoOfferIsSound
  <2> QED BY <2>2, <2>3 DEF ReadyStep, Hold, Result
<1>4. Hold(MkState(row.effectiveMode, 0, 0, NoPending, 0, r.impliedRank)).state \in SoundRows
  BY <1>0, NoOfferIsSound DEF Hold, Result
<1> QED BY <1>1, <1>2, <1>3, <1>4 DEF ScoredStep

LEMMA SignalLossStepIsSound ==
  ASSUME NEW row \in SoundRows, row.effectiveMode \in Operating
  PROVE  SignalLossStep(row).state \in SoundRows
<1> USE SoundRowType
<1>1. OneBandDown(row.effectiveMode) \in Modes \ {"RETIRED"}
  BY BandsAreSound DEF Modes, Operating
<1>2. \A n \in Nat :
        MkState(row.effectiveMode, 0, 0, row.pending, n, row.lastImpliedRank) \in SoundRows
  <2> TAKE n \in Nat
  <2>1. CASE HasPending(row)
    <3>1. row.pending = [toMode |-> NextBandUp(row.effectiveMode),
                         awaitingApproval |-> row.pending.awaitingApproval]
      BY <2>1, OfferFromBelow
    <3>2. row.pending.awaitingApproval \in BOOLEAN
      BY <2>1, OfferFromBelow
    <3> QED BY <2>1, <3>1, <3>2, OfferFromBelow, OfferIsSound
  <2>2. CASE row.pending = NoPending
    BY <2>2, NoOfferIsSound
  <2> QED BY <2>1, <2>2 DEF HasPending
<1>3. row.insufficient + 1 \in Nat /\ 0 \in Nat
  OBVIOUS
<1> QED BY <1>1, <1>2, <1>3, NoOfferIsSound DEF SignalLossStep, Fall, Hold, Result

\* A step of the engine leaves a sound row, and a parked one parked.
LEMMA StepIsSound ==
  ASSUME NEW row \in SoundRows, NEW r \in Readings, NEW signals \in Signals
  PROVE  /\ StepLifecycle(row, r, signals).state \in SoundRows
         /\ row.effectiveMode = "SUSPENDED" =>
              StepLifecycle(row, r, signals).state.effectiveMode = "SUSPENDED"
<1> USE SoundRowType
<1>1. /\ GuardrailStep(row).state \in SoundRows
      /\ GuardrailStep(row).state.effectiveMode = "SUSPENDED"
  <2>1. "SUSPENDED" \in Modes \ {"RETIRED"}
    BY DEF Modes
  <2> QED BY <2>1, NoOfferIsSound DEF GuardrailStep, Hold, Fall, Result, MkState
<1>2. row.effectiveMode \in Operating => DriftStep(row).state \in SoundRows
  <2>1. row.effectiveMode \in Operating => OneBandDown(row.effectiveMode) \in Modes \ {"RETIRED"}
    BY BandsAreSound DEF Modes, Operating
  <2> QED BY <2>1, NoOfferIsSound DEF DriftStep, Fall, Result
<1>3. HasPending(row) => ManualStep(row, signals.manual).state \in SoundRows
  <2>1. HasPending(row) => row.pending.toMode \in Modes \ {"RETIRED"}
    BY OfferFromBelow DEF Modes, Operating
  <2> QED BY <2>1, NoOfferIsSound DEF ManualStep, Result
<1>4. ObservingStep(row, r).state \in SoundRows
  <2>1. /\ {"OBSERVING", "SHADOW"} \subseteq Modes \ {"RETIRED"}
        /\ r.impliedRank \in Ranks \cup {NoRank}
    BY DEF Modes, Operating, Readings
  <2> QED BY <2>1, NoOfferIsSound DEF ObservingStep, Hold, Result
<1>5. /\ SuspendedStep(row).state \in SoundRows
      /\ SuspendedStep(row).state.effectiveMode = "SUSPENDED"
  <2>1. "SUSPENDED" \in Modes \ {"RETIRED"}
    BY DEF Modes
  <2> QED BY <2>1, NoOfferIsSound DEF SuspendedStep, Hold, Result, MkState
<1>6. row.effectiveMode \in Modes \ {"RETIRED", "OBSERVING", "SUSPENDED"} =>
        row.effectiveMode \in Operating
  BY DEF Modes
<1>7. row.effectiveMode \in Operating =>
        /\ SignalLossStep(row).state \in SoundRows
        /\ Scored(r) => ScoredStep(row, r).state \in SoundRows
  BY SignalLossStepIsSound, ScoredStepIsSound
<1>8. row.effectiveMode = "SUSPENDED" => row.effectiveMode \notin Operating /\ ~HasPending(row)
  BY OfferFromBelow DEF Operating
<1> QED BY <1>1, <1>2, <1>3, <1>4, <1>5, <1>6, <1>7, <1>8, Zenon DEF StepLifecycle

------------------------------------------------------------------------------
(* Requests and what they make of a row *)

\* What a request is made of.
LEMMA RequestType ==
  ASSUME NEW q \in Requests
  PROVE  /\ q.kind \in {"DECISION", "VERDICT", "MODE", "APPROVE", "SUSPEND", "RESUME",
                        "SUSPEND_ALL", "RESUME_ALL"}
         /\ q.kind \in {"DECISION", "VERDICT"} =>
              /\ q.ingest.reading \in Readings
              /\ q.ingest.signals \in Signals
         /\ q.kind = "MODE" => q.target \in Operating
         /\ ~AgentWide(q) => q.task \in Tasks
  BY TransactionAssumption DEF Requests, MakeRequest, AgentWide

\* Outcome, by the kind of the request.
LEMMA OutcomeByKind ==
  ASSUME NEW q \in Requests, NEW row
  PROVE  /\ q.kind \in {"DECISION", "VERDICT"} =>
              Outcome(q, row) = StepLifecycle(row, q.ingest.reading, q.ingest.signals).state
         /\ q.kind = "APPROVE" =>
              Outcome(q, row) = StepLifecycle(row, NoIngest.reading,
                                  [NoIngest.signals EXCEPT !.manual = "APPROVE"]).state
         /\ q.kind = "MODE" => Outcome(q, row) = ManualOverride(row, q.target).state
         /\ Suspends(q) => Outcome(q, row) = SuspendAgent(row).state
         /\ Resumes(q) => Outcome(q, row) = ResumeAgent(row).state
  BY DEF Outcome, Suspends, Resumes

\* A request that is not refused leaves a sound row; only a resume takes it out of
\* SUSPENDED, and a suspend parks it.
LEMMA OutcomeIsSound ==
  ASSUME NEW q \in Requests, NEW row \in RowOrNone, ~Refused(q, row)
  PROVE  /\ row \in SoundRows
         /\ Outcome(q, row) \in SoundRows
         /\ row.effectiveMode = "SUSPENDED" =>
              Outcome(q, row).effectiveMode = "SUSPENDED" \/ Resumes(q)
         /\ Suspends(q) => Outcome(q, row).effectiveMode = "SUSPENDED"
<1>1. row \in SoundRows
  BY DEF Refused, RowOrNone
<1> USE <1>1
<1>2. CASE q.kind \in {"DECISION", "VERDICT"}
  BY <1>2, RequestType, StepIsSound, OutcomeByKind DEF Suspends
<1>3. CASE q.kind = "APPROVE"
  <2>1. NoIngest.reading \in Readings
    BY DEF NoIngest, Readings, NoRank
  <2>2. [NoIngest.signals EXCEPT !.manual = "APPROVE"] \in Signals
    BY DEF NoIngest, Signals
  <2> QED BY <1>3, <2>1, <2>2, StepIsSound, OutcomeByKind DEF Suspends
<1>4. CASE q.kind = "MODE"
  <2>1. q.target \in Modes \ {"RETIRED"}
    BY <1>4, RequestType DEF Modes, Operating
  <2>2. row.effectiveMode # "SUSPENDED"
    BY <1>4 DEF Refused, CanOverrideFrom, Operating
  <2>3. ManualOverride(row, q.target).state \in SoundRows
    BY <2>1, SoundRowType, NoOfferIsSound DEF ManualOverride, ActorMoves, Result
  <2> QED BY <1>4, <2>2, <2>3, OutcomeByKind DEF Suspends
<1>5. CASE Suspends(q)
  <2>1. "SUSPENDED" \in Modes \ {"RETIRED"}
    BY DEF Modes
  <2>2. SuspendAgent(row).state \in SoundRows
    BY <2>1, SoundRowType, NoOfferIsSound DEF SuspendAgent, ActorMoves, Result
  <2>3. SuspendAgent(row).state.effectiveMode = "SUSPENDED"
    BY DEF SuspendAgent, ActorMoves, Result, MkState
  <2> QED BY <1>5, <2>2, <2>3, OutcomeByKind DEF Suspends
<1>6. CASE Resumes(q)
  <2>1. "OBSERVING" \in Modes \ {"RETIRED"} /\ NoRank \in Ranks \cup {NoRank}
    BY DEF Modes
  <2>2. ResumeAgent(row).state \in SoundRows
    BY <2>1, NoOfferIsSound DEF ResumeAgent, Result, InitialLifecycleState
  <2> QED BY <1>6, <2>2, OutcomeByKind DEF Suspends, Resumes
<1> QED BY <1>2, <1>3, <1>4, <1>5, <1>6, RequestType DEF Suspends, Resumes

\* The row that the first contact inserts is sound; no row is none.
LEMMA InitialIsSound == InitialLifecycleState \in SoundRows
  BY NoOfferIsSound DEF InitialLifecycleState, Modes

LEMMA NoRowIsNoState == NoRow.effectiveMode \notin Modes /\ NoRow \notin SoundRows
  BY SoundRowType DEF NoRow, MkState, NoBand, Modes, Operating

------------------------------------------------------------------------------
(* The order of a fan-out *)

Ascending(ts) == \A i, j \in DOMAIN ts : i < j => ts[i] < ts[j]

\* A listing is in the order of the keys.
LEMMA ListedType ==
  ASSUME NEW S \in SUBSET Tasks, NEW ts \in Listed(S)
  PROVE  /\ ts \in Seq(Tasks)
         /\ Ascending(ts)
         /\ ToSet(ts) \subseteq S
<1>1. IsFiniteSet(S)
  BY TransactionAssumption, FS_Subset
<1>2. Cardinality(S) \in Nat
  BY <1>1, FS_CardinalityType
<1>3. ts \in [1..Cardinality(S) -> S]
  BY DEF Listed, SetToSeqs
<1>4. ts \in Seq(Tasks)
  BY <1>2, <1>3, SeqDef
<1>5. Ascending(ts)
  BY DEF Listed, Ascending
<1> QED BY <1>3, <1>4, <1>5 DEF ToSet

\* What is left of a listing is in order, and after what was taken.
LEMMA TailOfAscending ==
  ASSUME NEW ts \in Seq(Tasks), ts # <<>>, Ascending(ts)
  PROVE  /\ Head(ts) \in Tasks
         /\ Head(ts) = ts[1] /\ 1 \in DOMAIN ts
         /\ Tail(ts) \in Seq(Tasks)
         /\ Ascending(Tail(ts))
         /\ \A i \in DOMAIN Tail(ts) : Head(ts) < Tail(ts)[i]
         /\ \A i \in DOMAIN Tail(ts) : i + 1 \in DOMAIN ts /\ Tail(ts)[i] = ts[i + 1]
         /\ ToSet(ts) = {Head(ts)} \cup ToSet(Tail(ts))
<1>1. /\ Head(ts) \in Tasks /\ Tail(ts) \in Seq(Tasks)
      /\ Len(Tail(ts)) = Len(ts) - 1
      /\ \A i \in 1 .. Len(Tail(ts)) : Tail(ts)[i] = ts[i + 1]
  BY HeadTailProperties
<1>2. Len(ts) \in Nat \ {0} /\ DOMAIN ts = 1 .. Len(ts)
  BY EmptySeq, LenProperties
<1>3. DOMAIN Tail(ts) = 1 .. Len(Tail(ts))
  BY <1>1, LenProperties
<1>4. Head(ts) = ts[1] /\ 1 \in DOMAIN ts
  BY <1>2
<1>5. \A i \in DOMAIN Tail(ts) : i + 1 \in DOMAIN ts /\ Tail(ts)[i] = ts[i + 1]
  BY <1>1, <1>2, <1>3
<1>6. Ascending(Tail(ts))
  BY <1>1, <1>2, <1>3, <1>5 DEF Ascending
<1>7. \A i \in DOMAIN Tail(ts) : Head(ts) < Tail(ts)[i]
  BY <1>2, <1>3, <1>4, <1>5 DEF Ascending
<1>8. ToSet(ts) = {Head(ts)} \cup ToSet(Tail(ts))
  <2>1. \A i \in DOMAIN ts : i = 1 \/ (i - 1 \in DOMAIN Tail(ts) /\ Tail(ts)[i - 1] = ts[i])
    BY <1>1, <1>2, <1>3
  <2> QED BY <2>1, <1>4, <1>5 DEF ToSet
<1> QED BY <1>1, <1>4, <1>5, <1>6, <1>7, <1>8

------------------------------------------------------------------------------
(* The invariant *)

Statements == {"IDLE", "CONTACT", "ENSURE", "READ", "WRITE", "MARK", "COMMIT"}
Lockable == Tasks \cup {AgentRow}

Typed ==
  /\ rows \in [Tasks -> RowOrNone]
  /\ agent \in [identity : {"DISCOVERED", "ACTIVE"}, suspended : BOOLEAN]
  /\ lock \in [Lockable -> Sessions \cup {NoSession}]
  /\ request \in [Sessions -> Requests \cup {NoRequest}]
  /\ pc \in [Sessions -> Statements]
  /\ listed \in [Sessions -> Seq(Tasks)]
  /\ todo \in [Sessions -> Seq(Tasks)]
  /\ seen \in [Sessions -> [Tasks -> RowOrNone]]
  /\ writes \in [Sessions -> [Tasks -> RowOrNone]]
  /\ begun \in 0..MaxRequests

Holds(s, l) == lock[l] = s

\* A request about one task holds that task's row at most, and the agent's if it
\* made first contact.
SingleInv(s) ==
  /\ request[s].task \in Tasks
  /\ pc[s] # "MARK"
  /\ pc[s] \in {"CONTACT", "ENSURE"} =>
       request[s].kind = "DECISION" /\ \A t \in Tasks : seen[s][t] = NoRow
  /\ pc[s] # "COMMIT" => todo[s] = <<request[s].task>>
  /\ \A t \in Tasks : Holds(s, t) => t = request[s].task
  /\ Holds(s, AgentRow) => request[s].kind = "DECISION" /\ agent.identity = "DISCOVERED"
  /\ request[s].kind = "DECISION" /\ pc[s] # "CONTACT" /\ agent.identity = "DISCOVERED" =>
       Holds(s, AgentRow)

\* What an agent-wide suspend owes of a task that it listed: it has parked it, or found
\* it parked.
Parks(s, t) == "SUSPENDED" \in {writes[s][t].effectiveMode, seen[s][t].effectiveMode}

\* A fan-out takes its tasks in the order of their keys and the agent's row last.
FanOutInv(s) ==
  /\ pc[s] \in {"READ", "WRITE", "MARK", "COMMIT"}
  /\ pc[s] \in {"READ", "WRITE"} <=> todo[s] # <<>>
  /\ Ascending(todo[s])
  /\ \A t \in Tasks : Holds(s, t) => \A i \in DOMAIN todo[s] : t < todo[s][i]
  /\ Holds(s, AgentRow) => pc[s] = "COMMIT"
  /\ \A i \in DOMAIN todo[s] : rows[todo[s][i]] # NoRow
  /\ Suspends(request[s]) =>
       \A t \in ToSet(listed[s]) : t \in ToSet(todo[s]) \/ Parks(s, t)

\* What a session is about to write is what its request makes of a row it has read and
\* that does not refuse it; only a resume writes over a row that it found parked.
WritesInv(s) ==
  /\ pc[s] = "WRITE" => ~Refused(request[s], seen[s][Head(todo[s])])
  /\ \A t \in Tasks :
       writes[s][t] # NoRow /\ seen[s][t].effectiveMode = "SUSPENDED" =>
         writes[s][t].effectiveMode = "SUSPENDED" \/ Resumes(request[s])

SessionInv(s) ==
  /\ pc[s] = "IDLE" =>
       /\ \A l \in Lockable : ~Holds(s, l)
       /\ \A t \in Tasks : writes[s][t] = NoRow /\ seen[s][t] = NoRow
  /\ pc[s] # "IDLE" =>
       /\ request[s] \in Requests
       /\ AgentWide(request[s]) => FanOutInv(s)
       /\ ~AgentWide(request[s]) => SingleInv(s)
       /\ WritesInv(s)

IInv == Typed /\ \A s \in Sessions : SessionInv(s)

------------------------------------------------------------------------------
(* What a step of one session leaves of the others *)

\* A step of s touches its own session, takes or releases its own locks, creates rows
\* and deletes none, and moves the agent's identity only under the agent's lock.
Local(s) ==
  /\ \A o \in Sessions \ {s} :
       /\ request'[o] = request[o] /\ pc'[o] = pc[o]
       /\ listed'[o] = listed[o] /\ todo'[o] = todo[o]
       /\ seen'[o] = seen[o] /\ writes'[o] = writes[o]
       /\ \A l \in Lockable : lock'[l] = o <=> lock[l] = o
  /\ \A t \in Tasks : rows[t] # NoRow => rows'[t] # NoRow
  /\ \/ agent'.identity = agent.identity
     \/ agent'.identity = "ACTIVE" /\ lock[AgentRow] = s

\* What a fan-out lists are tasks.
LEMMA ListedAreTasks ==
  ASSUME Typed, NEW s \in Sessions
  PROVE  ToSet(listed[s]) \subseteq Tasks
<1>1. listed[s] \in Seq(Tasks)
  BY DEF Typed
<1> QED BY <1>1, LenProperties, ElementOfSeq DEF ToSet

\* A session does not mind what the others do.
LEMMA OthersKeep ==
  ASSUME Typed, NEW s \in Sessions, Local(s), NEW o \in Sessions \ {s}, SessionInv(o)
  PROVE  SessionInv(o)'
<1> DEFINE q == request[o]
<1>1. /\ request'[o] = q /\ pc'[o] = pc[o]
      /\ listed'[o] = listed[o] /\ todo'[o] = todo[o]
      /\ seen'[o] = seen[o] /\ writes'[o] = writes[o]
      /\ \A l \in Lockable : Holds(o, l)' <=> Holds(o, l)
  BY DEF Local, Holds
<1>2. todo[o] \in Seq(Tasks)
  BY DEF Typed
<1>3. pc[o] # "IDLE" /\ AgentWide(q) => FanOutInv(o)'
  <2> SUFFICES ASSUME FanOutInv(o) PROVE FanOutInv(o)'
    BY DEF SessionInv
  <2>1. \A i \in DOMAIN todo[o] : todo[o][i] \in Tasks
    BY <1>2, LenProperties, ElementOfSeq
  <2>2. \A i \in DOMAIN todo[o] : rows'[todo[o][i]] # NoRow
    BY <2>1 DEF FanOutInv, Local
  <2>3. \A t \in Tasks : Parks(o, t)' <=> Parks(o, t)
    BY <1>1 DEF Parks
  <2> QED BY <1>1, <2>2, <2>3, ListedAreTasks DEF FanOutInv, Lockable, ToSet
<1>4. pc[o] # "IDLE" /\ ~AgentWide(q) => SingleInv(o)'
  <2> SUFFICES ASSUME SingleInv(o) PROVE SingleInv(o)'
    BY DEF SessionInv
  <2>1. Holds(o, AgentRow) => agent'.identity = agent.identity
    <3>1. Holds(o, AgentRow) => lock[AgentRow] # s
      BY DEF Holds
    <3> QED BY <3>1 DEF Local
  <2>2. agent'.identity = "DISCOVERED" => agent.identity = "DISCOVERED"
    BY DEF Local
  <2> QED BY <1>1, <2>1, <2>2 DEF SingleInv, Lockable
<1>5. WritesInv(o) => WritesInv(o)'
  BY <1>1 DEF WritesInv
<1> QED BY <1>1, <1>3, <1>4, <1>5 DEF SessionInv

\* What a statement that is not blocked does to the locks.
LEMMA ExecuteLocks ==
  ASSUME Typed, NEW s \in Sessions, Execute(s), Needs(s) \in Lockable \cup {NoLock}
  PROVE  /\ lock' \in [Lockable -> Sessions \cup {NoSession}]
         /\ \A l \in Lockable : Holds(s, l)' <=> Holds(s, l) \/ l = Needs(s)
         /\ \A o \in Sessions \ {s} : \A l \in Lockable : lock'[l] = o <=> lock[l] = o
<1>1. NoLock \notin Lockable
  BY TransactionAssumption DEF NoLock, Lockable, AgentRow
<1>2. CASE Needs(s) = NoLock
  BY <1>1, <1>2 DEF Execute, Typed, Holds
<1>3. CASE Needs(s) \in Lockable
  <2>1. lock' = [lock EXCEPT ![Needs(s)] = s]
    BY <1>1, <1>3 DEF Execute
  <2>2. lock[Needs(s)] \in {s, NoSession}
    BY <1>1, <1>3 DEF Execute, Blocked
  <2> QED BY <1>3, <2>1, <2>2, TransactionAssumption DEF Typed, Holds
<1> QED BY <1>2, <1>3

\* What the end of a transaction leaves of it.
LEMMA EndLeavesNothing ==
  ASSUME Typed, NEW s \in Sessions, End(s)
  PROVE  /\ lock' \in [Lockable -> Sessions \cup {NoSession}]
         /\ request' \in [Sessions -> Requests \cup {NoRequest}]
         /\ pc' \in [Sessions -> Statements]
         /\ listed' \in [Sessions -> Seq(Tasks)]
         /\ todo' \in [Sessions -> Seq(Tasks)]
         /\ seen' \in [Sessions -> [Tasks -> RowOrNone]]
         /\ writes' \in [Sessions -> [Tasks -> RowOrNone]]
         /\ \A o \in Sessions \ {s} :
              /\ request'[o] = request[o] /\ pc'[o] = pc[o]
              /\ listed'[o] = listed[o] /\ todo'[o] = todo[o]
              /\ seen'[o] = seen[o] /\ writes'[o] = writes[o]
              /\ \A l \in Lockable : lock'[l] = o <=> lock[l] = o
         /\ pc'[s] = "IDLE"
         /\ SessionInv(s)'
<1>1. /\ lock' \in [Lockable -> Sessions \cup {NoSession}]
      /\ \A l \in Lockable : lock'[l] # s
      /\ \A o \in Sessions \ {s} : \A l \in Lockable : lock'[l] = o <=> lock[l] = o
  BY TransactionAssumption DEF Typed, End
<1>2. /\ pc' \in [Sessions -> Statements] /\ pc'[s] = "IDLE"
      /\ request' \in [Sessions -> Requests \cup {NoRequest}]
      /\ \A o \in Sessions \ {s} : request'[o] = request[o] /\ pc'[o] = pc[o]
  BY DEF Typed, End, GoTo, Statements
<1>3. /\ listed' \in [Sessions -> Seq(Tasks)] /\ todo' \in [Sessions -> Seq(Tasks)]
      /\ \A o \in Sessions \ {s} : listed'[o] = listed[o] /\ todo'[o] = todo[o]
  BY EmptySeq DEF Typed, End
<1>4. [t \in Tasks |-> NoRow] \in [Tasks -> RowOrNone]
  BY DEF RowOrNone
<1>5. /\ seen' \in [Sessions -> [Tasks -> RowOrNone]]
      /\ writes' \in [Sessions -> [Tasks -> RowOrNone]]
      /\ \A o \in Sessions \ {s} : seen'[o] = seen[o] /\ writes'[o] = writes[o]
      /\ seen'[s] = [t \in Tasks |-> NoRow] /\ writes'[s] = [t \in Tasks |-> NoRow]
  BY <1>4 DEF Typed, End
<1>6. SessionInv(s)'
  BY <1>1, <1>2, <1>5 DEF SessionInv, Holds
<1> QED BY <1>1, <1>2, <1>3, <1>5, <1>6

\* A request that gives up, fails or is aborted.
LEMMA RollbackKeeps ==
  ASSUME Typed, NEW s \in Sessions, Rollback(s)
  PROVE  Typed' /\ Local(s) /\ SessionInv(s)'
<1>1. End(s) /\ UNCHANGED <<rows, agent, begun>>
  BY DEF Rollback
<1>2. Local(s)
  <2>1. \A o \in Sessions \ {s} :
          /\ request'[o] = request[o] /\ pc'[o] = pc[o]
          /\ listed'[o] = listed[o] /\ todo'[o] = todo[o]
          /\ seen'[o] = seen[o] /\ writes'[o] = writes[o]
          /\ \A l \in Lockable : lock'[l] = o <=> lock[l] = o
    BY <1>1, EndLeavesNothing
  <2>2. rows' = rows /\ agent' = agent
    BY <1>1
  <2> QED BY <2>1, <2>2 DEF Local
<1> QED BY <1>1, <1>2, EndLeavesNothing DEF Typed

\* Which kind of request a session runs.
LEMMA AtWork ==
  ASSUME Typed, NEW s \in Sessions, SessionInv(s), pc[s] # "IDLE"
  PROVE  /\ request[s] \in Requests
         /\ AgentWide(request[s]) => FanOutInv(s)
         /\ ~AgentWide(request[s]) => SingleInv(s)
         /\ WritesInv(s)
  BY DEF SessionInv

\* A session reads or writes one row.
LEMMA OneRow ==
  ASSUME NEW f \in [Sessions -> [Tasks -> RowOrNone]], NEW s \in Sessions,
         NEW t \in Tasks, NEW row \in RowOrNone, NEW g, g = [f EXCEPT ![s][t] = row]
  PROVE  /\ g \in [Sessions -> [Tasks -> RowOrNone]]
         /\ \A o \in Sessions \ {s} : g[o] = f[o]
         /\ g[s][t] = row
         /\ \A u \in Tasks \ {t} : g[s][u] = f[s][u]
<1>1. f[s] \in [Tasks -> RowOrNone]
  OBVIOUS
<1>2. [f[s] EXCEPT ![t] = row] \in [Tasks -> RowOrNone]
  BY <1>1
<1>3. g = [f EXCEPT ![s] = [f[s] EXCEPT ![t] = row]]
  OBVIOUS
<1>4. g[s] = [f[s] EXCEPT ![t] = row]
  BY <1>3
<1> QED BY <1>1, <1>2, <1>3, <1>4

------------------------------------------------------------------------------
(* The statements of a request, one lemma each *)

\* First contact takes the agent's row.
LEMMA ContactKeeps ==
  ASSUME Typed, NEW s \in Sessions, SessionInv(s), Contact(s)
  PROVE  Typed' /\ Local(s) /\ SessionInv(s)'
<1>1. /\ pc[s] = "CONTACT" /\ Execute(s) /\ pc' = [pc EXCEPT ![s] = "ENSURE"]
      /\ UNCHANGED <<rows, agent, request, listed, todo, seen, writes, begun>>
  BY DEF Contact, GoTo
<1>2. /\ request[s] \in Requests /\ ~AgentWide(request[s])
      /\ SingleInv(s) /\ WritesInv(s)
  BY <1>1, AtWork DEF FanOutInv
<1>3. Needs(s) = IF agent.identity = "DISCOVERED" THEN AgentRow ELSE NoLock
  BY <1>1 DEF Needs
<1>4. AgentRow \notin Tasks /\ NoLock \notin Lockable /\ Lockable = Tasks \cup {AgentRow}
  BY TransactionAssumption DEF NoLock, Lockable, AgentRow
<1>5. /\ lock' \in [Lockable -> Sessions \cup {NoSession}]
      /\ \A l \in Lockable : Holds(s, l)' <=> Holds(s, l) \/ l = Needs(s)
      /\ \A o \in Sessions \ {s} : \A l \in Lockable : lock'[l] = o <=> lock[l] = o
  BY <1>1, <1>3, <1>4, ExecuteLocks
<1>6. Typed'
  BY <1>1, <1>5 DEF Typed, Statements
<1>7. Local(s)
  BY <1>1, <1>5 DEF Local, Typed
<1>8. pc'[s] = "ENSURE"
  BY <1>1 DEF Typed
<1>9. SingleInv(s)'
  BY <1>1, <1>2, <1>3, <1>4, <1>5, <1>8 DEF SingleInv
<1>10. WritesInv(s)'
  BY <1>1, <1>2, <1>8 DEF WritesInv
<1> QED BY <1>1, <1>2, <1>6, <1>7, <1>8, <1>9, <1>10 DEF SessionInv

LEMMA EnsureKeeps ==
  ASSUME Typed, NEW s \in Sessions, SessionInv(s), Ensure(s)
  PROVE  Typed' /\ Local(s) /\ SessionInv(s)'
<1> DEFINE t == request[s].task
<1>1. /\ pc[s] = "ENSURE" /\ Execute(s) /\ pc' = [pc EXCEPT ![s] = "READ"]
      /\ UNCHANGED <<rows, agent, request, listed, todo, seen, begun>>
      /\ \/ rows[t] = NoRow /\ writes' = [writes EXCEPT ![s][t] = InitialLifecycleState]
         \/ rows[t] # NoRow /\ writes' = writes
  BY DEF Ensure, GoTo
<1>2. /\ request[s] \in Requests /\ ~AgentWide(request[s])
      /\ SingleInv(s) /\ WritesInv(s)
  BY <1>1, AtWork DEF FanOutInv
<1>a. t \in Tasks
  BY <1>2 DEF SingleInv
<1>3. Needs(s) = IF rows[t] = NoRow THEN t ELSE NoLock
  BY <1>1 DEF Needs
<1>4. AgentRow \notin Tasks /\ NoLock \notin Lockable /\ Lockable = Tasks \cup {AgentRow}
  BY TransactionAssumption DEF NoLock, Lockable, AgentRow
<1>5. /\ lock' \in [Lockable -> Sessions \cup {NoSession}]
      /\ \A l \in Lockable : Holds(s, l)' <=> Holds(s, l) \/ l = Needs(s)
      /\ \A o \in Sessions \ {s} : \A l \in Lockable : lock'[l] = o <=> lock[l] = o
  BY <1>1, <1>a, <1>3, <1>4, ExecuteLocks
<1>b. /\ writes' \in [Sessions -> [Tasks -> RowOrNone]]
      /\ \A o \in Sessions \ {s} : writes'[o] = writes[o]
  <2>1. CASE writes' = writes
    BY <2>1 DEF Typed
  <2>2. CASE writes' = [writes EXCEPT ![s][t] = InitialLifecycleState]
    <3>1. InitialLifecycleState \in RowOrNone
      BY InitialIsSound DEF RowOrNone
    <3>2. writes \in [Sessions -> [Tasks -> RowOrNone]]
      BY DEF Typed
    <3> HIDE DEF t
    <3> QED BY <2>2, <1>a, <3>1, <3>2, OneRow
  <2> QED BY <1>1, <2>1, <2>2
<1>6. Typed'
  BY <1>1, <1>5, <1>b DEF Typed, Statements
<1>7. Local(s)
  BY <1>1, <1>5, <1>b DEF Local, Typed
<1>8. pc'[s] = "READ"
  BY <1>1 DEF Typed
<1>9. SingleInv(s)'
  BY <1>1, <1>2, <1>a, <1>3, <1>4, <1>5, <1>8 DEF SingleInv
<1>10. WritesInv(s)'
  <2>1. \A u \in Tasks : seen'[s][u].effectiveMode # "SUSPENDED"
    BY <1>1, <1>2, NoRowIsNoState DEF SingleInv, Modes
  <2> QED BY <1>8, <2>1 DEF WritesInv
<1> QED BY <1>1, <1>2, <1>6, <1>7, <1>8, <1>9, <1>10 DEF SessionInv

LEMMA MarkKeeps ==
  ASSUME Typed, NEW s \in Sessions, SessionInv(s), Mark(s)
  PROVE  Typed' /\ Local(s) /\ SessionInv(s)'
<1>1. CASE Rollback(s)
  BY <1>1, RollbackKeeps
<1>2. CASE ~Rollback(s)
  <2>1. /\ pc[s] = "MARK" /\ Execute(s) /\ pc' = [pc EXCEPT ![s] = "COMMIT"]
        /\ UNCHANGED <<rows, agent, request, listed, todo, seen, writes, begun>>
    BY <1>2 DEF Mark, GoTo
  <2>2. /\ request[s] \in Requests /\ AgentWide(request[s])
        /\ FanOutInv(s) /\ WritesInv(s)
    BY <2>1, AtWork DEF SingleInv
  <2>3. Needs(s) = AgentRow
    BY <2>1 DEF Needs
  <2>4. AgentRow \notin Tasks /\ NoLock \notin Lockable /\ Lockable = Tasks \cup {AgentRow}
    BY TransactionAssumption DEF NoLock, Lockable, AgentRow
  <2>5. /\ lock' \in [Lockable -> Sessions \cup {NoSession}]
        /\ \A l \in Lockable : Holds(s, l)' <=> Holds(s, l) \/ l = Needs(s)
        /\ \A o \in Sessions \ {s} : \A l \in Lockable : lock'[l] = o <=> lock[l] = o
    BY <2>1, <2>3, <2>4, ExecuteLocks
  <2>6. Typed'
    BY <2>1, <2>5 DEF Typed, Statements
  <2>7. Local(s)
    BY <2>1, <2>5 DEF Local, Typed
  <2>8. pc'[s] = "COMMIT"
    BY <2>1 DEF Typed
  <2>9. \A t \in Tasks : Parks(s, t)' <=> Parks(s, t)
    BY <2>1 DEF Parks
  <2>10. FanOutInv(s)'
    BY <2>1, <2>2, <2>3, <2>4, <2>5, <2>8, <2>9, ListedAreTasks DEF FanOutInv, Ascending
  <2>11. WritesInv(s)'
    BY <2>1, <2>2, <2>8 DEF WritesInv
  <2> QED BY <2>1, <2>2, <2>6, <2>7, <2>8, <2>10, <2>11 DEF SessionInv
<1> QED BY <1>1, <1>2

LEMMA BeginKeeps ==
  ASSUME Typed, NEW s \in Sessions, SessionInv(s), NEW q \in Requests, Begin(s, q)
  PROVE  Typed' /\ Local(s) /\ SessionInv(s)'
<1>1. /\ pc[s] = "IDLE" /\ begun < MaxRequests /\ begun' = begun + 1
      /\ request' = [request EXCEPT ![s] = q]
      /\ UNCHANGED <<rows, agent, lock, seen, writes>>
  BY DEF Begin
<1>2. /\ \A l \in Lockable : ~Holds(s, l)
      /\ \A t \in Tasks : writes[s][t] = NoRow /\ seen[s][t] = NoRow
  BY <1>1 DEF SessionInv
<1>3. request'[s] = q
  BY <1>1 DEF Typed
<1>4. \A statement \in Statements, ts \in Seq(Tasks) :
        /\ pc' = [pc EXCEPT ![s] = statement]
        /\ listed' = [listed EXCEPT ![s] = ts]
        /\ todo' = [todo EXCEPT ![s] = ts]
        => /\ Typed' /\ Local(s)
           /\ pc'[s] = statement /\ listed'[s] = ts /\ todo'[s] = ts
  <2> SUFFICES ASSUME NEW statement \in Statements, NEW ts \in Seq(Tasks),
                      pc' = [pc EXCEPT ![s] = statement],
                      listed' = [listed EXCEPT ![s] = ts],
                      todo' = [todo EXCEPT ![s] = ts]
               PROVE  /\ Typed' /\ Local(s)
                      /\ pc'[s] = statement /\ listed'[s] = ts /\ todo'[s] = ts
    OBVIOUS
  <2>1. begun' \in 0..MaxRequests
    BY <1>1, TransactionAssumption DEF Typed
  <2>2. Typed'
    BY <1>1, <2>1 DEF Typed
  <2>3. Local(s)
    BY <1>1 DEF Typed, Local
  <2> QED BY <2>2, <2>3 DEF Typed
<1>5. pc'[s] # "WRITE" => WritesInv(s)'
  BY <1>1, <1>2 DEF WritesInv
<1>6. CASE AgentWide(q)
  <2>1. PICK ts \in Listed({t \in Tasks : rows[t] # NoRow}) :
          /\ listed' = [listed EXCEPT ![s] = ts]
          /\ todo' = [todo EXCEPT ![s] = ts]
          /\ pc' = [pc EXCEPT ![s] = IF ts = <<>> THEN "MARK" ELSE "READ"]
    BY <1>6 DEF Begin, GoTo
  <2>2. /\ ts \in Seq(Tasks) /\ Ascending(ts)
        /\ ToSet(ts) \subseteq {t \in Tasks : rows[t] # NoRow}
    BY ListedType
  <2>3. (IF ts = <<>> THEN "MARK" ELSE "READ") \in Statements
    BY DEF Statements
  <2>4. /\ Typed' /\ Local(s)
        /\ pc'[s] = (IF ts = <<>> THEN "MARK" ELSE "READ")
        /\ listed'[s] = ts /\ todo'[s] = ts
    BY <1>4, <2>1, <2>2, <2>3
  <2>5. \A i \in DOMAIN ts : rows'[ts[i]] # NoRow
    BY <1>1, <2>2 DEF ToSet
  <2>6. \A l \in Lockable : ~Holds(s, l)'
    BY <1>1, <1>2 DEF Holds
  <2>7. FanOutInv(s)'
    BY <1>3, <2>2, <2>4, <2>5, <2>6 DEF FanOutInv, Ascending, Lockable
  <2> QED BY <1>3, <1>5, <1>6, <2>4, <2>7 DEF SessionInv
<1>7. CASE ~AgentWide(q)
  <2>1. /\ listed' = [listed EXCEPT ![s] = <<q.task>>]
        /\ todo' = [todo EXCEPT ![s] = <<q.task>>]
        /\ pc' = [pc EXCEPT ![s] = IF q.kind = "DECISION" THEN "CONTACT" ELSE "READ"]
    BY <1>7 DEF Begin, GoTo
  <2>2. q.task \in Tasks
    BY <1>7, RequestType
  <2>3. <<q.task>> \in Seq(Tasks)
    BY <2>2
  <2>4. (IF q.kind = "DECISION" THEN "CONTACT" ELSE "READ") \in Statements
    BY DEF Statements
  <2>5. /\ Typed' /\ Local(s)
        /\ pc'[s] = (IF q.kind = "DECISION" THEN "CONTACT" ELSE "READ")
        /\ todo'[s] = <<q.task>>
    BY <1>4, <2>1, <2>3, <2>4
  <2>6. \A l \in Lockable : ~Holds(s, l)'
    BY <1>1, <1>2 DEF Holds
  <2>7. SingleInv(s)'
    BY <1>1, <1>2, <1>3, <2>2, <2>5, <2>6 DEF SingleInv, Lockable
  <2> QED BY <1>3, <1>5, <1>7, <2>5, <2>7 DEF SessionInv
<1> QED BY <1>6, <1>7

\* The task that a session reads or writes next.
LEMMA NextTask ==
  ASSUME Typed, NEW s \in Sessions, SessionInv(s), pc[s] \in {"READ", "WRITE"}
  PROVE  /\ todo[s] \in Seq(Tasks) /\ todo[s] # <<>>
         /\ Head(todo[s]) \in Tasks /\ Head(todo[s]) \in ToSet(todo[s])
         /\ Tail(todo[s]) \in Seq(Tasks)
         /\ ~AgentWide(request[s]) =>
              Head(todo[s]) = request[s].task /\ Tail(todo[s]) = <<>>
         /\ AgentWide(request[s]) => rows[Head(todo[s])] # NoRow
<1>1. todo[s] \in Seq(Tasks)
  BY DEF Typed
<1>2. todo[s] # <<>>
  BY AtWork DEF FanOutInv, SingleInv
<1>3. Head(todo[s]) \in Tasks /\ Tail(todo[s]) \in Seq(Tasks)
  BY <1>1, <1>2, HeadTailProperties
<1>4. ~AgentWide(request[s]) => Head(todo[s]) = request[s].task /\ Tail(todo[s]) = <<>>
  <2>1. ~AgentWide(request[s]) => request[s].task \in Tasks /\ todo[s] = <<request[s].task>>
    BY AtWork DEF SingleInv
  <2>2. \A t : Head(<<t>>) = t /\ Tail(<<t>>) = <<>>
    OBVIOUS
  <2> QED BY <2>1, <2>2
<1>5. AgentWide(request[s]) => rows[Head(todo[s])] # NoRow
  BY <1>1, <1>2, AtWork, TailOfAscending DEF FanOutInv
<1>6. Head(todo[s]) \in ToSet(todo[s])
  <2>1. 1 \in DOMAIN todo[s] /\ Head(todo[s]) = todo[s][1]
    BY <1>1, <1>2, EmptySeq, LenProperties
  <2> QED BY <2>1 DEF ToSet
<1> QED BY <1>1, <1>2, <1>3, <1>4, <1>5, <1>6

LEMMA ReadKeeps ==
  ASSUME Typed, NEW s \in Sessions, SessionInv(s), Read(s)
  PROVE  Typed' /\ Local(s) /\ SessionInv(s)'
<1> DEFINE t == Head(todo[s])
           row == IF writes[s][t] # NoRow THEN writes[s][t] ELSE rows[t]
           rest == Tail(todo[s])
           q == request[s]
<1>1. pc[s] = "READ"
  BY DEF Read
<1>2. /\ q \in Requests
      /\ AgentWide(q) => FanOutInv(s)
      /\ ~AgentWide(q) => SingleInv(s)
      /\ WritesInv(s)
  BY <1>1, AtWork
<1>3. /\ todo[s] \in Seq(Tasks) /\ todo[s] # <<>> /\ t \in Tasks /\ rest \in Seq(Tasks)
      /\ AgentWide(q) => rows[t] # NoRow
  BY <1>1, NextTask
<1>4. row \in RowOrNone
  BY <1>3 DEF Typed
<1>5. seen' = [seen EXCEPT ![s][t] = row] =>
        /\ seen' \in [Sessions -> [Tasks -> RowOrNone]]
        /\ \A o \in Sessions \ {s} : seen'[o] = seen[o]
        /\ seen'[s][t] = row /\ \A u \in Tasks \ {t} : seen'[s][u] = seen[s][u]
  <2> HIDE DEF t, row
  <2>1. seen \in [Sessions -> [Tasks -> RowOrNone]]
    BY DEF Typed
  <2> QED BY <1>3, <1>4, <2>1, OneRow
<1>6. /\ seen' = [seen EXCEPT ![s][t] = row]
      /\ UNCHANGED <<writes, request>>
      /\ \/ pc'[s] # "WRITE"
         \/ ~Refused(q, row) /\ UNCHANGED todo
      => WritesInv(s)'
  <2> SUFFICES ASSUME seen' = [seen EXCEPT ![s][t] = row],
                      writes' = writes, request' = request,
                      pc'[s] # "WRITE" \/ (~Refused(q, row) /\ todo' = todo)
               PROVE  WritesInv(s)'
    OBVIOUS
  <2>1. writes[s][t] # NoRow => row = writes[s][t]
    OBVIOUS
  <2> HIDE DEF row
  <2> QED BY <1>2, <1>3, <1>5, <2>1 DEF WritesInv
<1>7. CASE /\ ~Refused(q, row)
           /\ seen' = [seen EXCEPT ![s][t] = row]
           /\ pc' = [pc EXCEPT ![s] = "WRITE"]
           /\ UNCHANGED <<rows, agent, lock, request, listed, todo, writes, begun>>
  <2> HIDE DEF row
  <2>1. Typed'
    BY <1>5, <1>7 DEF Typed, Statements
  <2>2. Local(s)
    BY <1>5, <1>7 DEF Local, Typed
  <2>3. pc'[s] = "WRITE"
    BY <1>7 DEF Typed
  <2>4. WritesInv(s)'
    BY <1>6, <1>7
  <2>5. ~AgentWide(q) => SingleInv(s)'
    BY <1>1, <1>2, <1>7, <2>3 DEF SingleInv, Holds
  <2>6. AgentWide(q) => FanOutInv(s)'
    <3>1. \A u \in Tasks : Parks(s, u) => Parks(s, u)' \/ u = t
      BY <1>5, <1>7 DEF Parks
    <3>2. t \in ToSet(todo[s])
      BY <1>1, NextTask
    <3> QED BY <1>1, <1>2, <1>7, <2>3, <3>1, <3>2, ListedAreTasks DEF FanOutInv, Holds, Ascending
  <2> QED BY <1>2, <1>7, <2>1, <2>2, <2>3, <2>4, <2>5, <2>6 DEF SessionInv
<1>8. CASE /\ Refused(q, row) /\ AgentWide(q)
           /\ seen' = [seen EXCEPT ![s][t] = row]
           /\ todo' = [todo EXCEPT ![s] = rest]
           /\ pc' = [pc EXCEPT ![s] = IF rest = <<>> THEN "MARK" ELSE "READ"]
           /\ UNCHANGED <<rows, agent, lock, request, listed, writes, begun>>
  <2>0. Suspends(q) => row.effectiveMode = "SUSPENDED"
    <3>1. row # NoRow
      BY <1>3, <1>8
    <3>2. row \in SoundRows
      BY <1>4, <3>1 DEF RowOrNone
    <3>3. Suspends(q) => ~CanSuspendFrom(row.effectiveMode)
      BY <1>8, <3>1 DEF Refused, Suspends, Resumes
    <3> QED BY <3>2, <3>3, SoundRowType DEF CanSuspendFrom
  <2> HIDE DEF row
  <2>1. Typed'
    BY <1>3, <1>5, <1>8 DEF Typed, Statements
  <2>2. Local(s)
    BY <1>5, <1>8 DEF Local, Typed
  <2>3. pc'[s] = (IF rest = <<>> THEN "MARK" ELSE "READ") /\ todo'[s] = rest
    BY <1>8 DEF Typed
  <2>4. WritesInv(s)'
    BY <1>6, <1>8, <2>3
  <2>5. FanOutInv(s)'
    <3>1. \A u \in Tasks : Parks(s, u) => Parks(s, u)' \/ u = t
      BY <1>5, <1>8 DEF Parks
    <3>2. Suspends(q) => \A u \in Tasks : u = t => Parks(s, u)'
      BY <1>5, <1>8, <2>0 DEF Parks
    <3>3. /\ Ascending(rest)
          /\ \A i \in DOMAIN rest : i + 1 \in DOMAIN todo[s] /\ rest[i] = todo[s][i + 1]
          /\ ToSet(todo[s]) = {t} \cup ToSet(rest)
      BY <1>2, <1>3, <1>8, TailOfAscending DEF FanOutInv
    <3>4. Suspends(q) => \A u \in ToSet(listed[s]) : u \in ToSet(rest) \/ Parks(s, u)'
      <4>1. ToSet(listed[s]) \subseteq Tasks
        BY ListedAreTasks
      <4> QED BY <1>2, <1>8, <3>1, <3>2, <3>3, <4>1 DEF FanOutInv
    <3> HIDE DEF rest
    <3> QED BY <1>1, <1>2, <1>8, <2>3, <3>3, <3>4 DEF FanOutInv, Holds, Ascending
  <2> QED BY <1>2, <1>8, <2>1, <2>2, <2>3, <2>4, <2>5 DEF SessionInv
<1>9. CASE Rollback(s)
  BY <1>9, RollbackKeeps
<1> QED BY <1>7, <1>8, <1>9 DEF Read, Skipped, GoTo

LEMMA WriteKeeps ==
  ASSUME Typed, NEW s \in Sessions, SessionInv(s), Write(s)
  PROVE  Typed' /\ Local(s) /\ SessionInv(s)'
<1> DEFINE t == Head(todo[s])
           rest == Tail(todo[s])
           q == request[s]
           outcome == Outcome(q, seen[s][t])
           next == IF rest # <<>> THEN "READ" ELSE IF AgentWide(q) THEN "MARK" ELSE "COMMIT"
<1>1. /\ pc[s] = "WRITE" /\ Execute(s)
      /\ writes' = [writes EXCEPT ![s][t] = outcome]
      /\ todo' = [todo EXCEPT ![s] = rest]
      /\ pc' = [pc EXCEPT ![s] = next]
      /\ UNCHANGED <<rows, agent, request, listed, seen, begun>>
  BY DEF Write, GoTo, Updated
<1>2. /\ q \in Requests
      /\ AgentWide(q) => FanOutInv(s)
      /\ ~AgentWide(q) => SingleInv(s)
      /\ WritesInv(s)
  BY <1>1, AtWork
<1>3. /\ todo[s] \in Seq(Tasks) /\ todo[s] # <<>> /\ t \in Tasks /\ rest \in Seq(Tasks)
      /\ ~AgentWide(q) => t = q.task /\ rest = <<>>
  BY <1>1, NextTask
<1>4. Needs(s) = t
  BY <1>1 DEF Needs
<1>5. /\ AgentRow \notin Tasks /\ NoLock \notin Lockable
      /\ Lockable = Tasks \cup {AgentRow}
  BY TransactionAssumption DEF NoLock, Lockable, AgentRow
<1>6. /\ lock' \in [Lockable -> Sessions \cup {NoSession}]
      /\ \A l \in Lockable : Holds(s, l)' <=> Holds(s, l) \/ l = t
      /\ \A o \in Sessions \ {s} : \A l \in Lockable : lock'[l] = o <=> lock[l] = o
  <2>1. Needs(s) \in Lockable \cup {NoLock}
    BY <1>3, <1>4, <1>5
  <2> HIDE DEF t
  <2> QED BY <1>1, <1>4, <2>1, ExecuteLocks
<1>7. /\ outcome \in RowOrNone
      /\ seen[s][t].effectiveMode = "SUSPENDED" =>
           outcome.effectiveMode = "SUSPENDED" \/ Resumes(q)
      /\ Suspends(q) => outcome.effectiveMode = "SUSPENDED"
  <2>1. ~Refused(q, seen[s][t])
    BY <1>1, <1>2 DEF WritesInv
  <2>2. seen[s][t] \in RowOrNone
    BY <1>3 DEF Typed
  <2> QED BY <1>2, <2>1, <2>2, OutcomeIsSound DEF RowOrNone
<1>8. /\ writes' \in [Sessions -> [Tasks -> RowOrNone]]
      /\ \A o \in Sessions \ {s} : writes'[o] = writes[o]
      /\ writes'[s][t] = outcome /\ \A u \in Tasks \ {t} : writes'[s][u] = writes[s][u]
  <2>1. writes \in [Sessions -> [Tasks -> RowOrNone]]
    BY DEF Typed
  <2> HIDE DEF t, outcome
  <2> QED BY <1>1, <1>3, <1>7, <2>1, OneRow
<1> HIDE DEF outcome
<1>9. Typed'
  BY <1>1, <1>3, <1>6, <1>8 DEF Typed, Statements
<1>10. Local(s)
  BY <1>1, <1>6, <1>8 DEF Local, Typed
<1>11. pc'[s] = next /\ todo'[s] = rest /\ next \in {"READ", "MARK", "COMMIT"}
  BY <1>1 DEF Typed
<1>12. WritesInv(s)'
  BY <1>1, <1>2, <1>7, <1>8, <1>11 DEF WritesInv
<1>13. CASE ~AgentWide(q)
  <2>1. pc'[s] = "COMMIT"
    BY <1>3, <1>11, <1>13
  <2>2. SingleInv(s)'
    BY <1>1, <1>2, <1>3, <1>5, <1>6, <1>13, <2>1 DEF SingleInv
  <2> QED BY <1>1, <1>2, <1>9, <1>10, <1>12, <1>13, <2>1, <2>2 DEF SessionInv
<1>14. CASE AgentWide(q)
  <2>1. pc'[s] = IF rest # <<>> THEN "READ" ELSE "MARK"
    BY <1>11, <1>14
  <2>2. /\ Ascending(rest)
        /\ \A i \in DOMAIN rest : t < rest[i]
        /\ \A i \in DOMAIN rest : i + 1 \in DOMAIN todo[s] /\ rest[i] = todo[s][i + 1]
        /\ ToSet(todo[s]) = {t} \cup ToSet(rest)
    BY <1>2, <1>3, <1>14, TailOfAscending DEF FanOutInv
  <2>3. Suspends(q) => \A u \in ToSet(listed[s]) : u \in ToSet(rest) \/ Parks(s, u)'
    <3>1. \A u \in Tasks : Parks(s, u) => Parks(s, u)' \/ u = t
      BY <1>1, <1>8 DEF Parks
    <3>2. Suspends(q) => \A u \in Tasks : u = t => Parks(s, u)'
      BY <1>7, <1>8 DEF Parks
    <3> QED BY <1>2, <1>14, <2>2, <3>1, <3>2, ListedAreTasks DEF FanOutInv
  <2>4. \A u \in Tasks : Holds(s, u)' => \A i \in DOMAIN rest : u < rest[i]
    BY <1>2, <1>5, <1>6, <1>14, <2>2 DEF FanOutInv
  <2>5. ~Holds(s, AgentRow)'
    BY <1>1, <1>2, <1>3, <1>5, <1>6, <1>14 DEF FanOutInv
  <2>6. \A i \in DOMAIN rest : rows'[rest[i]] # NoRow
    BY <1>1, <1>2, <1>14, <2>2 DEF FanOutInv
  <2> HIDE DEF rest
  <2>7. FanOutInv(s)'
    BY <1>1, <1>11, <2>1, <2>2, <2>3, <2>4, <2>5, <2>6 DEF FanOutInv, Ascending
  <2> QED BY <1>1, <1>2, <1>9, <1>10, <1>12, <1>14, <2>1, <2>7 DEF SessionInv
<1> QED BY <1>13, <1>14

LEMMA CommitKeeps ==
  ASSUME Typed, NEW s \in Sessions, SessionInv(s), Commit(s)
  PROVE  Typed' /\ Local(s) /\ SessionInv(s)'
<1> DEFINE q == request[s]
<1>1. /\ pc[s] = "COMMIT" /\ End(s) /\ begun' = begun
      /\ rows' = [t \in Tasks |-> IF t \in Written(s) THEN writes[s][t] ELSE rows[t]]
      /\ agent' = [identity  |-> IF q.kind = "DECISION" THEN "ACTIVE" ELSE agent.identity,
                   suspended |-> IF AgentWide(q) THEN Suspends(q) ELSE agent.suspended]
  BY DEF Commit
<1>2. rows' \in [Tasks -> RowOrNone] /\ \A t \in Tasks : rows[t] # NoRow => rows'[t] # NoRow
  BY <1>1 DEF Typed, Written
<1>3. /\ agent' \in [identity : {"DISCOVERED", "ACTIVE"}, suspended : BOOLEAN]
      /\ agent'.identity = IF q.kind = "DECISION" THEN "ACTIVE" ELSE agent.identity
  <2>1. Suspends(q) \in BOOLEAN
    BY DEF Suspends
  <2>2. agent.identity \in {"DISCOVERED", "ACTIVE"} /\ agent.suspended \in BOOLEAN
    BY DEF Typed
  <2>3. (IF AgentWide(q) THEN Suspends(q) ELSE agent.suspended) \in BOOLEAN
    BY <2>1, <2>2
  <2>4. (IF q.kind = "DECISION" THEN "ACTIVE" ELSE agent.identity) \in {"DISCOVERED", "ACTIVE"}
    BY <2>2
  <2> QED BY <1>1, <2>3, <2>4
<1>4. agent'.identity = agent.identity \/ (agent'.identity = "ACTIVE" /\ lock[AgentRow] = s)
  <2>1. q.kind = "DECISION" => SingleInv(s)
    BY <1>1, AtWork DEF AgentWide
  <2>2. q.kind = "DECISION" /\ agent.identity = "DISCOVERED" => lock[AgentRow] = s
    BY <1>1, <2>1 DEF SingleInv, Holds
  <2>3. agent.identity \in {"DISCOVERED", "ACTIVE"}
    BY DEF Typed
  <2> QED BY <1>3, <2>2, <2>3
<1>5. Typed'
  BY <1>1, <1>2, <1>3, EndLeavesNothing DEF Typed
<1>6. Local(s)
  <2>1. \A o \in Sessions \ {s} :
          /\ request'[o] = request[o] /\ pc'[o] = pc[o]
          /\ listed'[o] = listed[o] /\ todo'[o] = todo[o]
          /\ seen'[o] = seen[o] /\ writes'[o] = writes[o]
          /\ \A l \in Lockable : lock'[l] = o <=> lock[l] = o
    BY <1>1, EndLeavesNothing
  <2> QED BY <1>2, <1>4, <2>1 DEF Local
<1> QED BY <1>1, <1>5, <1>6, EndLeavesNothing

------------------------------------------------------------------------------
(* The inductive invariant *)

LEMMA InitIInv == Init => IInv
<1> SUFFICES ASSUME Init PROVE IInv
  OBVIOUS
<1>1. \A r \in StartRows : r \in RowOrNone
  BY TransactionAssumption DEF RowOrNone
<1>2. [t \in Tasks |-> NoRow] \in [Tasks -> RowOrNone]
  BY DEF RowOrNone
<1>3. 0 \in 0..MaxRequests
  BY TransactionAssumption
<1>4. Typed
  BY <1>1, <1>2, <1>3, EmptySeq DEF Init, Typed, Lockable, Statements
<1>5. \A s \in Sessions : SessionInv(s)
  BY TransactionAssumption DEF Init, SessionInv, Holds, Lockable
<1> QED BY <1>4, <1>5 DEF IInv

\* Every step is a step of one session.
LEMMA StepKeeps ==
  ASSUME IInv, NEW s \in Sessions,
         (\E q \in Requests : Begin(s, q)) \/ Progress(s) \/ Fail(s)
  PROVE  Typed' /\ Local(s) /\ SessionInv(s)'
<1>1. Typed /\ SessionInv(s)
  BY DEF IInv
<1>2. CASE \E q \in Requests : Begin(s, q)
  BY <1>1, <1>2, BeginKeeps
<1>3. CASE Contact(s)
  BY <1>1, <1>3, ContactKeeps
<1>4. CASE Ensure(s)
  BY <1>1, <1>4, EnsureKeeps
<1>5. CASE Read(s)
  BY <1>1, <1>5, ReadKeeps
<1>6. CASE Write(s)
  BY <1>1, <1>6, WriteKeeps
<1>7. CASE Mark(s)
  BY <1>1, <1>7, MarkKeeps
<1>8. CASE Commit(s)
  BY <1>1, <1>8, CommitKeeps
<1>9. CASE AbortVictim(s) \/ Fail(s)
  BY <1>1, <1>9, RollbackKeeps DEF AbortVictim, Fail
<1> QED BY <1>2, <1>3, <1>4, <1>5, <1>6, <1>7, <1>8, <1>9 DEF Progress

LEMMA NextIInv == IInv /\ [Next]_vars => IInv'
<1> SUFFICES ASSUME IInv, [Next]_vars PROVE IInv'
  OBVIOUS
<1>1. CASE UNCHANGED vars
  BY <1>1 DEF vars, IInv, Typed, SessionInv, FanOutInv, SingleInv, WritesInv, Holds, Parks,
     Ascending
<1>2. CASE Next
  <2>1. PICK s \in Sessions : (\E q \in Requests : Begin(s, q)) \/ Progress(s) \/ Fail(s)
    BY <1>2 DEF Next
  <2>2. Typed' /\ Local(s) /\ SessionInv(s)'
    BY <2>1, StepKeeps
  <2>3. \A o \in Sessions \ {s} : SessionInv(o)'
    <3> SUFFICES ASSUME NEW o \in Sessions \ {s} PROVE SessionInv(o)'
      OBVIOUS
    <3>1. Typed /\ SessionInv(o)
      BY DEF IInv
    <3> QED BY <2>2, <3>1, OthersKeep
  <2>4. \A o \in Sessions : SessionInv(o)'
    BY <2>2, <2>3
  <2> QED BY <2>2, <2>4 DEF IInv
<1> QED BY <1>1, <1>2

\* The invariant holds in every state.
LEMMA SpecIInv == Spec => []IInv
  BY InitIInv, NextIInv, PTL DEF Spec

------------------------------------------------------------------------------
(* The theorems *)

\* However requests interleave, fail and are aborted, every committed row is one that the
\* lifecycle can leave: an offer in it is the next band up from the mode beside it.
THEOREM RowsStayWhole == Spec => []RowsAreWhole
<1>1. IInv => RowsAreWhole
  BY DEF IInv, Typed, RowsAreWhole, RowOrNone, SoundRows, Whole, HasPending, NoRow, MkState
<1> QED BY <1>1, SpecIInv, PTL

\* Only a commit changes the rows.
LEMMA RowsChangeAtCommit ==
  ASSUME Next, rows' # rows
  PROVE  \E s \in Sessions : Commit(s)
  BY DEF Next, Progress, Begin, Contact, Ensure, Read, Write, Mark, AbortVictim, Fail, Rollback

\* A task leaves SUSPENDED only by a resume, or by the commit of a request that had read it
\* before it was parked.
THEOREM ParkedUntilResumedOrRaced == Spec => OnlyStaleRequestsUndoASuspension
<1>1. ASSUME IInv, [Next]_vars
      PROVE  [\A t \in Tasks :
                rows[t].effectiveMode = "SUSPENDED" /\ rows'[t].effectiveMode # "SUSPENDED" =>
                  \E s \in Sessions :
                    /\ Commits(s)
                    /\ \/ Resumes(request[s])
                       \/ seen[s][t].effectiveMode # "SUSPENDED"]_vars
  <2> SUFFICES ASSUME Next, NEW t \in Tasks, rows[t].effectiveMode = "SUSPENDED",
                      rows'[t].effectiveMode # "SUSPENDED"
               PROVE  \E s \in Sessions :
                        /\ Commits(s)
                        /\ \/ Resumes(request[s])
                           \/ seen[s][t].effectiveMode # "SUSPENDED"
    BY <1>1 DEF vars
  <2>1. rows'[t] # rows[t]
    OBVIOUS
  <2>2. PICK s \in Sessions : Commit(s)
    BY <2>1, RowsChangeAtCommit
  <2>3. Typed /\ SessionInv(s)
    BY <1>1 DEF IInv
  <2>4. pc[s] = "COMMIT" /\ pc'[s] = "IDLE"
    BY <2>2, <2>3 DEF Commit, End, GoTo, Typed
  <2>5. t \in Written(s) /\ rows'[t] = writes[s][t]
    BY <2>1, <2>2 DEF Commit
  <2>6. WritesInv(s)
    BY <2>3, <2>4, AtWork
  <2>7. Resumes(request[s]) \/ seen[s][t].effectiveMode # "SUSPENDED"
    BY <2>5, <2>6 DEF WritesInv, Written
  <2> QED BY <2>1, <2>4, <2>7 DEF Commits
<1> QED BY <1>1, SpecIInv, PTL DEF Spec, OnlyStaleRequestsUndoASuspension

\* An agent-wide suspend that succeeds has parked every task it listed, or found it parked.
THEOREM SuspendAllParksWhatItListed == Spec => AgentWideSuspendParksAll
<1> DEFINE Parked(s) ==
             Commits(s) /\ request[s].kind = "SUSPEND_ALL" =>
               \A t \in ToSet(listed[s]) :
                 "SUSPENDED" \in {rows'[t].effectiveMode, seen[s][t].effectiveMode}
<1>1. ASSUME IInv, [Next]_vars PROVE [\A s \in Sessions : Parked(s)]_vars
  <2> SUFFICES ASSUME Next, NEW s \in Sessions, Commits(s),
                      request[s].kind = "SUSPEND_ALL", NEW t \in ToSet(listed[s])
               PROVE  "SUSPENDED" \in {rows'[t].effectiveMode, seen[s][t].effectiveMode}
    BY <1>1 DEF vars
  <2>1. Typed /\ SessionInv(s) /\ pc[s] = "COMMIT" /\ pc'[s] = "IDLE" /\ rows' # rows
    BY <1>1 DEF IInv, Commits
  <2>2. Commit(s)
    <3>1. PICK o \in Sessions : Commit(o)
      BY <2>1, RowsChangeAtCommit
    <3>2. pc' = [pc EXCEPT ![o] = "IDLE"]
      BY <3>1 DEF Commit, End, GoTo
    <3> QED BY <2>1, <3>1, <3>2 DEF Typed
  <2>3. FanOutInv(s) /\ Suspends(request[s])
    BY <2>1, AtWork DEF AgentWide, Suspends
  <2>4. t \in Tasks /\ Parks(s, t)
    <3>1. todo[s] = <<>>
      BY <2>1, <2>3 DEF FanOutInv
    <3>2. ToSet(todo[s]) = {}
      BY <3>1 DEF ToSet
    <3> QED BY <2>1, <2>3, <3>2, ListedAreTasks DEF FanOutInv
  <2>5. writes[s][t].effectiveMode = "SUSPENDED" => rows'[t] = writes[s][t]
    BY <2>2, <2>4, NoRowIsNoState DEF Commit, Written, Modes
  <2> QED BY <2>4, <2>5 DEF Parks
<1> QED BY <1>1, SpecIInv, PTL DEF Spec, AgentWideSuspendParksAll

------------------------------------------------------------------------------
(* Deadlocks *)

\* What a session that is blocked waits for.
LEMMA BlockedAt ==
  ASSUME Typed, NEW s \in Sessions, SessionInv(s), Blocked(s)
  PROVE  /\ Needs(s) \in Lockable /\ lock[Needs(s)] # s
         /\ pc[s] \in {"CONTACT", "ENSURE", "WRITE", "MARK"}
         /\ Needs(s) # AgentRow =>
              IF AgentWide(request[s])
              THEN pc[s] = "WRITE" /\ Needs(s) = Head(todo[s])
              ELSE Needs(s) = request[s].task
<1>1. pc[s] \in {"CONTACT", "ENSURE", "WRITE", "MARK"}
  BY DEF Blocked, Needs, Typed, Statements
<1>2. /\ request[s] \in Requests
      /\ AgentWide(request[s]) => FanOutInv(s)
      /\ ~AgentWide(request[s]) => SingleInv(s)
  BY <1>1, AtWork
<1>3. lock[Needs(s)] # s /\ Needs(s) # NoLock
  BY DEF Blocked
<1>4. CASE pc[s] = "CONTACT"
  BY <1>3, <1>4 DEF Needs, Lockable
<1>5. CASE pc[s] = "ENSURE"
  BY <1>2, <1>3, <1>5 DEF Needs, Lockable, SingleInv, FanOutInv
<1>6. CASE pc[s] = "WRITE"
  BY <1>2, <1>3, <1>6, NextTask DEF Needs, Lockable
<1>7. CASE pc[s] = "MARK"
  BY <1>3, <1>7 DEF Needs, Lockable
<1> QED BY <1>1, <1>3, <1>4, <1>5, <1>6, <1>7

\* Whoever holds a task's row and waits for another is a fan-out, and the task it waits
\* for comes after.
LEMMA HolderGoesUp ==
  ASSUME Typed, NEW s \in Sessions, SessionInv(s), Blocked(s), Needs(s) # AgentRow,
         NEW t \in Tasks, Holds(s, t)
  PROVE  t < Needs(s)
<1>1. /\ lock[Needs(s)] # s /\ pc[s] # "IDLE"
      /\ IF AgentWide(request[s]) THEN pc[s] = "WRITE" /\ Needs(s) = Head(todo[s])
         ELSE Needs(s) = request[s].task
  BY BlockedAt
<1>2. AgentWide(request[s])
  <2>1. ~AgentWide(request[s]) => t = request[s].task
    BY <1>1, AtWork DEF SingleInv
  <2> QED BY <1>1, <2>1 DEF Holds
<1>3. FanOutInv(s) /\ pc[s] = "WRITE"
  BY <1>1, <1>2, AtWork
<1>4. 1 \in DOMAIN todo[s] /\ Needs(s) = todo[s][1]
  BY <1>1, <1>2, <1>3, NextTask, TailOfAscending DEF FanOutInv
<1> QED BY <1>3, <1>4 DEF FanOutInv

\* Whoever holds the agent's row and waits is a first contact.
LEMMA AgentHolderIsFirstContact ==
  ASSUME Typed, NEW s \in Sessions, SessionInv(s), Blocked(s), lock[AgentRow] = s
  PROVE  agent.identity = "DISCOVERED" /\ request[s].kind = "DECISION"
<1>1. pc[s] \in {"CONTACT", "ENSURE", "WRITE", "MARK"}
  BY BlockedAt
<1>2. ~AgentWide(request[s])
  BY <1>1, AtWork DEF FanOutInv, Holds
<1> QED BY <1>1, <1>2, AtWork DEF SingleInv, Holds

After(n) == {t \in Tasks : n < t}

\* The later a task is, the fewer are after it.
LEMMA AfterShrinks ==
  ASSUME NEW a \in Tasks, NEW b \in Tasks, a < b
  PROVE  After(b) \subseteq After(a) /\ After(b) # After(a)
<1>0. Tasks \subseteq Nat
  BY TransactionAssumption
<1>1. \A t \in Tasks : b < t => a < t
  <2> TAKE t \in Tasks
  <2> QED BY <1>0
<1>2. b \in After(a)
  BY DEF After
<1>3. ~ b < b
  BY <1>0
<1>4. After(b) \subseteq After(a)
  BY <1>1, Zenon DEF After
<1>5. b \notin After(b)
  BY <1>3, Zenon DEF After
<1> QED BY <1>2, <1>4, <1>5, Zenon

\* Of any number of requests and tasks, none wait for each other unless one of them is the
\* first contact of a DISCOVERED agent: the others take the tasks in key order, and the
\* agent last. The waiting session whose task has the fewest after it waits for a holder
\* that waits for a later one.
THEOREM DeadlocksNeedFirstContact == Spec => []DeadlockNeedsFirstContact
<1>1. ASSUME IInv PROVE DeadlockNeedsFirstContact
  <2> SUFFICES ASSUME NEW waiting \in SUBSET Sessions, Deadlocked(waiting)
               PROVE  /\ agent.identity = "DISCOVERED"
                      /\ \E s \in waiting : lock[AgentRow] = s /\ request[s].kind = "DECISION"
    BY DEF DeadlockNeedsFirstContact
  <2>1. /\ waiting # {} /\ waiting \subseteq Sessions /\ Typed
        /\ \A s \in waiting : SessionInv(s) /\ Blocked(s) /\ lock[Needs(s)] \in waiting
    BY <1>1 DEF Deadlocked, IInv
  <2>2. CASE \E s \in waiting : Needs(s) = AgentRow
    <3>1. lock[AgentRow] \in waiting
      BY <2>1, <2>2
    <3>2. PICK h \in waiting : lock[AgentRow] = h
      BY <3>1
    <3> QED BY <2>1, <3>2, AgentHolderIsFirstContact
  <2>3. CASE \A s \in waiting : Needs(s) # AgentRow
    <3> DEFINE Sets == {After(Needs(s)) : s \in waiting}
    <3>1. IsWellFoundedOn(StrictSubsetOrdering(Tasks), SUBSET Tasks)
      <4>1. FiniteSubsetsOf(Tasks) = SUBSET Tasks
        BY TransactionAssumption, FS_FiniteSubsetsOfFinite
      <4>2. IsWellFoundedOn(StrictSubsetOrdering(Tasks), FiniteSubsetsOf(Tasks))
        BY FS_StrictSubsetOrderingWellFounded
      <4> QED BY <4>1, <4>2
    <3>2. Sets \subseteq SUBSET Tasks /\ Sets # {}
      BY <2>1 DEF After
    <3>3. PICK least \in Sets :
            \A other \in Sets : ~ (<<other, least>> \in StrictSubsetOrdering(Tasks))
      <4> HIDE DEF Sets
      <4> QED BY <3>1, <3>2, WFMin, Zenon
    <3>4. PICK s \in waiting : least = After(Needs(s))
      OBVIOUS
    <3>5. PICK h \in waiting : h = lock[Needs(s)]
      BY <2>1
    <3>6. Needs(s) \in Tasks /\ Needs(h) \in Tasks /\ Tasks \subseteq Nat
      BY <2>1, <2>3, BlockedAt, TransactionAssumption DEF Lockable
    <3>7. Needs(s) < Needs(h)
      BY <2>1, <2>3, <3>5, <3>6, HolderGoesUp DEF Holds
    <3>8. After(Needs(h)) \subseteq After(Needs(s)) /\ After(Needs(h)) # After(Needs(s))
      BY <3>6, <3>7, AfterShrinks
    <3>9. After(Needs(h)) \in Sets
      OBVIOUS
    <3>10. <<After(Needs(h)), After(Needs(s))>> \in StrictSubsetOrdering(Tasks)
      BY <3>2, <3>8, <3>9 DEF StrictSubsetOrdering
    <3> QED BY <3>3, <3>4, <3>9, <3>10
  <2> QED BY <2>2, <2>3
<1> QED BY <1>1, SpecIInv, PTL
==============================================================================
