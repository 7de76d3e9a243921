--------------------------- MODULE TaskTransactions ---------------------------
(***************************************************************************)
(* The tasks of one agent in the database, and the requests that move them *)
(* as concurrent transactions (apps/api/src/app.ts, recompute.ts over      *)
(* packages/persistence). A request reads a task row without locking it,   *)
(* steps the lifecycle in memory, and writes the row back; an UPDATE locks *)
(* its row until the transaction ends, a read never waits and sees the     *)
(* last committed version (READ COMMITTED).                                *)
(*                                                                         *)
(* Abstracted: the rows a request only inserts (decision, score,           *)
(* transition), which no other request waits for, and a replayed ingest,   *)
(* which writes nothing.                                                   *)
(***************************************************************************)
EXTENDS Lifecycle, SequencesExt

CONSTANTS
  Sessions,    \* requests in flight at a time
  Tasks,       \* the agent's task keys, as their positions in key order
  StartRows,   \* the task rows the requests start from
  Ingests,     \* what ingests say: [reading, signals]
  MaxRequests  \* bound: the number of requests begun

VARIABLES
  rows,     \* the committed task rows
  agent,    \* the committed agent row: its identity, its agent-wide suspend marker
  lock,     \* who holds the lock of a row: a task's, or the agent's
  request,  \* the request of a session
  pc,       \* the statement it executes next
  listed,   \* the tasks it is about, in the order it takes them
  todo,     \* those it has still to read and write
  seen,     \* the rows it has read
  writes,   \* the rows it has written and not yet committed
  begun     \* the number of requests begun so far

vars == <<rows, agent, lock, request, pc, listed, todo, seen, writes, begun>>

------------------------------------------------------------------------------
(* Rows, locks and requests *)

NoRow == MkState(NoBand, 0, 0, NoPending, 0, NoRank)  \* no such task
Rows == LifecycleStates \cup {NoRow}

\* A row that requests may have left: an offer in it is the next band up.
Whole(r) == HasPending(r) => r.pending.toMode = NextBandUp(r.effectiveMode)
SoundRows == {r \in LifecycleStates : r.effectiveMode # "RETIRED" /\ Whole(r)}

NoSession == "NONE"
AgentRow == 0  \* the agent's own row among the lockable ones
NoLock == -1

NoIngest ==
  [reading |-> [impliedRank |-> NoRank, resolved |-> 0],
   signals |-> [guardrail |-> FALSE, drift |-> FALSE, manual |-> "NONE"]]
NoTarget == NoBand
AllTasks == 0  \* stands for the task of an agent-wide request

MakeRequest(kind, t, target, ingest) ==
  [kind |-> kind, task |-> t, target |-> target, ingest |-> ingest]

Requests ==
  {MakeRequest(kind, t, NoTarget, i) :
     kind \in {"DECISION", "VERDICT"}, t \in Tasks, i \in Ingests}
  \cup {MakeRequest("MODE", t, m, NoIngest) : t \in Tasks, m \in Operating}
  \cup {MakeRequest(kind, t, NoTarget, NoIngest) :
          kind \in {"APPROVE", "SUSPEND", "RESUME"}, t \in Tasks}
  \cup {MakeRequest(kind, AllTasks, NoTarget, NoIngest) :
          kind \in {"SUSPEND_ALL", "RESUME_ALL"}}
NoRequest == MakeRequest("NONE", AllTasks, NoTarget, NoIngest)

ASSUME TransactionAssumption ==
  /\ Tasks \subseteq Nat \ {0} /\ IsFiniteSet(Tasks)
  /\ MaxRequests \in Nat
  /\ NoSession \notin Sessions
  /\ \A r \in StartRows : r = NoRow \/ r \in SoundRows
  /\ \A i \in Ingests :
       i.reading \in Readings /\ i.signals \in Signals /\ i.signals.manual = "NONE"

AgentWide(q) == q.kind \in {"SUSPEND_ALL", "RESUME_ALL"}
Suspends(q) == q.kind \in {"SUSPEND", "SUSPEND_ALL"}
Resumes(q) == q.kind \in {"RESUME", "RESUME_ALL"}

\* Mutant: the mode route does not look at the current mode.
RefusedWithoutModeGuard(q, s) ==
  \/ s = NoRow
  \/ q.kind = "APPROVE" /\ ~HasPending(s)
  \/ Suspends(q) /\ ~CanSuspendFrom(s.effectiveMode)
  \/ Resumes(q) /\ ~CanResumeFrom(s.effectiveMode)

\* A request that finds a task in this state is answered 404 or 409.
Refused(q, s) ==
  \/ s = NoRow
  \/ q.kind = "APPROVE" /\ ~HasPending(s)
  \/ q.kind = "MODE" /\ ~CanOverrideFrom(s.effectiveMode)
  \/ Suspends(q) /\ ~CanSuspendFrom(s.effectiveMode)
  \/ Resumes(q) /\ ~CanResumeFrom(s.effectiveMode)

\* What a request makes of the state it has read.
Outcome(q, s) ==
  CASE q.kind \in {"DECISION", "VERDICT"} ->
         StepLifecycle(s, q.ingest.reading, q.ingest.signals).state
    [] q.kind = "APPROVE" ->
         StepLifecycle(s, NoIngest.reading,
                       [NoIngest.signals EXCEPT !.manual = "APPROVE"]).state
    [] q.kind = "MODE" -> ManualOverride(s, q.target).state
    [] Suspends(q)     -> SuspendAgent(s).state
    [] Resumes(q)      -> ResumeAgent(s).state

\* Mutant: an absent pending promotion is left out of the UPDATE.
UpdatedPartly(current, s) ==
  [s EXCEPT !.pending = IF @ = NoPending THEN current.pending ELSE @]

\* lifecycle.write: every lifecycle column of the row is overwritten.
Updated(current, s) == s

\* Mutant: the ORDER BY is forgotten.
ListedInAnyOrder(ts) == SetToSeqs(ts)

\* listForAgent: the tasks of the fan-out, by task key.
Listed(ts) == {seq \in SetToSeqs(ts) : \A i, j \in DOMAIN seq : i < j => seq[i] < seq[j]}

\* Mutant: the fan-out does not get past such a task.
SkippedNone(ts) == ts

\* The fan-out leaves a task that refuses it alone and goes on with the rest.
Skipped(ts) == Tail(ts)

TypeOK ==
  /\ rows \in [Tasks -> Rows]
  /\ agent \in [identity : {"DISCOVERED", "ACTIVE"}, suspended : BOOLEAN]
  /\ lock \in [Tasks \cup {AgentRow} -> Sessions \cup {NoSession}]
  /\ request \in [Sessions -> Requests \cup {NoRequest}]
  /\ pc \in [Sessions ->
               {"IDLE", "CONTACT", "ENSURE", "READ", "WRITE", "MARK", "COMMIT"}]
  /\ listed \in [Sessions -> Seq(Tasks)] /\ todo \in [Sessions -> Seq(Tasks)]
  /\ seen \in [Sessions -> [Tasks -> Rows]]
  /\ writes \in [Sessions -> [Tasks -> Rows]]
  /\ begun \in 0..MaxRequests
Init ==
  /\ rows \in [Tasks -> StartRows]
  /\ agent \in [identity : {"DISCOVERED", "ACTIVE"}, suspended : {FALSE}]
  /\ lock = [l \in Tasks \cup {AgentRow} |-> NoSession]
  /\ request = [s \in Sessions |-> NoRequest]
  /\ pc = [s \in Sessions |-> "IDLE"]
  /\ listed = [s \in Sessions |-> <<>>]
  /\ todo = [s \in Sessions |-> <<>>]
  /\ seen = [s \in Sessions |-> [t \in Tasks |-> NoRow]]
  /\ writes = [s \in Sessions |-> [t \in Tasks |-> NoRow]]
  /\ begun = 0

------------------------------------------------------------------------------
(* Waiting *)

Written(s) == {t \in Tasks : writes[s][t] # NoRow}

\* The row that a session's next statement updates or inserts, and so locks.
Needs(s) ==
  CASE pc[s] = "CONTACT" /\ agent.identity = "DISCOVERED" -> AgentRow
    [] pc[s] = "ENSURE" /\ rows[request[s].task] = NoRow -> request[s].task
    [] pc[s] = "WRITE" -> Head(todo[s])
    [] pc[s] = "MARK"  -> AgentRow
    [] OTHER           -> NoLock

Blocked(s) == Needs(s) # NoLock /\ lock[Needs(s)] \notin {s, NoSession}

\* Sessions that wait for each other and for no one else.
Deadlocked(waiting) ==
  waiting # {} /\ \A s \in waiting : Blocked(s) /\ lock[Needs(s)] \in waiting

\* The next statement of a session that is not blocked, with the lock it takes.
Execute(s) ==
  /\ ~Blocked(s)
  /\ lock' = IF Needs(s) = NoLock THEN lock ELSE [lock EXCEPT ![Needs(s)] = s]

GoTo(s, statement) == pc' = [pc EXCEPT ![s] = statement]

\* The end of a transaction: nothing of it is left in the session.
End(s) ==
  /\ lock' = [l \in DOMAIN lock |-> IF lock[l] = s THEN NoSession ELSE lock[l]]
  /\ request' = [request EXCEPT ![s] = NoRequest]
  /\ GoTo(s, "IDLE")
  /\ listed' = [listed EXCEPT ![s] = <<>>]
  /\ todo' = [todo EXCEPT ![s] = <<>>]
  /\ seen' = [seen EXCEPT ![s] = [t \in Tasks |-> NoRow]]
  /\ writes' = [writes EXCEPT ![s] = [t \in Tasks |-> NoRow]]

Rollback(s) == End(s) /\ UNCHANGED <<rows, agent, begun>>

------------------------------------------------------------------------------
(* The statements of a request *)

\* A request opens its transaction. A fan-out lists the tasks there are; only the
\* ingest of a decision makes contact with the agent and the task first.
Begin(s, q) ==
  /\ pc[s] = "IDLE" /\ begun < MaxRequests
  /\ request' = [request EXCEPT ![s] = q]
  /\ IF AgentWide(q)
     THEN \E ts \in Listed({t \in Tasks : rows[t] # NoRow}) :
            /\ listed' = [listed EXCEPT ![s] = ts]
            /\ todo' = [todo EXCEPT ![s] = ts]
            /\ GoTo(s, IF ts = <<>> THEN "MARK" ELSE "READ")
     ELSE /\ listed' = [listed EXCEPT ![s] = <<q.task>>]
          /\ todo' = [todo EXCEPT ![s] = <<q.task>>]
          /\ GoTo(s, IF q.kind = "DECISION" THEN "CONTACT" ELSE "READ")
  /\ begun' = begun + 1
  /\ UNCHANGED <<rows, agent, lock, seen, writes>>

\* markActiveOnFirstContact: updates the agent row while it is DISCOVERED.
Contact(s) ==
  /\ pc[s] = "CONTACT"
  /\ Execute(s)
  /\ GoTo(s, "ENSURE")
  /\ UNCHANGED <<rows, agent, request, listed, todo, seen, writes, begun>>

\* taskRepo.ensure: inserts the task row unless there is one.
Ensure(s) ==
  LET t == request[s].task
  IN /\ pc[s] = "ENSURE"
     /\ Execute(s)
     /\ IF rows[t] = NoRow
        THEN writes' = [writes EXCEPT ![s][t] = InitialLifecycleState]
        ELSE UNCHANGED writes
     /\ GoTo(s, "READ")
     /\ UNCHANGED <<rows, agent, request, listed, todo, seen, begun>>

\* lifecycle.read, and the decision it leads to: write the row, skip it or give up.
Read(s) ==
  LET t == Head(todo[s])
      row == IF writes[s][t] # NoRow THEN writes[s][t] ELSE rows[t]
      rest == Skipped(todo[s])
  IN /\ pc[s] = "READ"
     /\ \/ /\ ~Refused(request[s], row)
           /\ seen' = [seen EXCEPT ![s][t] = row]
           /\ GoTo(s, "WRITE")
           /\ UNCHANGED <<rows, agent, lock, request, listed, todo, writes, begun>>
        \/ /\ Refused(request[s], row) /\ AgentWide(request[s])
           /\ seen' = [seen EXCEPT ![s][t] = row]
           /\ todo' = [todo EXCEPT ![s] = rest]
           /\ GoTo(s, IF rest = <<>> THEN "MARK" ELSE "READ")
           /\ UNCHANGED <<rows, agent, lock, request, listed, writes, begun>>
        \/ /\ Refused(request[s], row) /\ ~AgentWide(request[s])
           /\ Rollback(s)

\* lifecycle.write
Write(s) ==
  LET t == Head(todo[s])
      rest == Tail(todo[s])
      current == IF writes[s][t] # NoRow THEN writes[s][t] ELSE rows[t]
  IN /\ pc[s] = "WRITE"
     /\ Execute(s)
     /\ writes' = [writes EXCEPT ![s][t] =
                     Updated(current, Outcome(request[s], seen[s][t]))]
     /\ todo' = [todo EXCEPT ![s] = rest]
     /\ GoTo(s, IF rest # <<>> THEN "READ"
                ELSE IF AgentWide(request[s]) THEN "MARK" ELSE "COMMIT")
     /\ UNCHANGED <<rows, agent, request, listed, seen, begun>>

\* The end of a fan-out: set or clear the marker, unless every task refused.
Mark(s) ==
  LET nothing == Written(s) = {} /\ listed[s] # <<>>
  IN /\ pc[s] = "MARK"
     /\ \/ nothing /\ Rollback(s)
        \/ /\ ~nothing
           /\ Execute(s)
           /\ GoTo(s, "COMMIT")
           /\ UNCHANGED <<rows, agent, request, listed, todo, seen, writes, begun>>

Commit(s) ==
  /\ pc[s] = "COMMIT"
  /\ rows' = [t \in Tasks |-> IF t \in Written(s) THEN writes[s][t] ELSE rows[t]]
  /\ agent' = [identity  |-> IF request[s].kind = "DECISION" THEN "ACTIVE"
                             ELSE agent.identity,
               suspended |-> IF AgentWide(request[s]) THEN Suspends(request[s])
                             ELSE agent.suspended]
  /\ End(s)
  /\ UNCHANGED begun

\* The database breaks a deadlock by aborting one of the transactions in it.
AbortVictim(s) ==
  /\ \E waiting \in SUBSET Sessions : s \in waiting /\ Deadlocked(waiting)
  /\ Rollback(s)

\* The server stops, the connection breaks or the transaction times out.
Fail(s) == pc[s] # "IDLE" /\ Rollback(s)

Progress(s) ==
  \/ Contact(s)
  \/ Ensure(s)
  \/ Read(s)
  \/ Write(s)
  \/ Mark(s)
  \/ Commit(s)
  \/ AbortVictim(s)

Next ==
  \E s \in Sessions :
    \/ \E q \in Requests : Begin(s, q)
    \/ Progress(s)
    \/ Fail(s)

\* A request that has begun goes on to its next statement, a lock that is released is
\* granted and a deadlock is detected. Nothing makes a request begin, or fail.
Fairness == \A s \in Sessions : WF_vars(Progress(s))

Spec == Init /\ [][Next]_vars /\ Fairness

------------------------------------------------------------------------------
(* Properties *)

\* However requests interleave, a committed row is one that some request wrote as a
\* whole: an offer in it is the next band up from the mode beside it.
RowsAreWhole == \A t \in Tasks : Whole(rows[t])

\* The fan-outs never deadlock with each other or with the requests of a single task:
\* there is a deadlock only with the first contact of an agent that already has tasks,
\* which locks the agent before the task.
DeadlockNeedsFirstContact ==
  \A waiting \in SUBSET Sessions : Deadlocked(waiting) =>
    /\ agent.identity = "DISCOVERED"
    /\ \E s \in waiting : lock[AgentRow] = s /\ request[s].kind = "DECISION"

\* A task leaves SUSPENDED only by a resume, or by a request that had read it before it
\* was parked and commits after: the race is no wider than that.
Commits(s) == pc[s] = "COMMIT" /\ rows' # rows /\ pc'[s] = "IDLE"
OnlyStaleRequestsUndoASuspension ==
  [][\A t \in Tasks :
       rows[t].effectiveMode = "SUSPENDED" /\ rows'[t].effectiveMode # "SUSPENDED" =>
         \E s \in Sessions :
           /\ Commits(s)
           /\ \/ Resumes(request[s])
              \/ seen[s][t].effectiveMode # "SUSPENDED"]_vars

\* An agent-wide suspend that succeeds parks every task it listed, the ones aside that
\* it found parked.
AgentWideSuspendParksAll ==
  [][\A s \in Sessions :
       Commits(s) /\ request[s].kind = "SUSPEND_ALL" =>
         \A t \in ToSet(listed[s]) :
           "SUSPENDED" \in {rows'[t].effectiveMode, seen[s][t].effectiveMode}]_vars

\* Every request is answered: no wait is for ever.
EveryRequestIsAnswered ==
  \A s \in Sessions : pc[s] # "IDLE" ~> pc[s] = "IDLE"

\* The engine never lets a parked task go: recovery is a human's request ("ROUTE-DRIVEN
\* ONLY (the auto-engine never self-resumes; step 5 of stepLifecycle keeps SUSPENDED a
\* hard sink)", packages/core/src/lifecycle.ts:632-633). The code does not keep this.
EngineNeverResumes ==
  [][\A t \in Tasks :
       rows[t].effectiveMode = "SUSPENDED" /\ rows'[t].effectiveMode # "SUSPENDED" =>
         \E s \in Sessions :
           Commits(s) /\ request[s].kind \notin {"DECISION", "VERDICT"}]_vars
==============================================================================
