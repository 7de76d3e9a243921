---------------------------- MODULE IngestionProofs ----------------------------
(***************************************************************************)
(* The theorems of Ingestion, for any number of concurrent requests, any   *)
(* calls and any rules.                                                    *)
(*                                                                         *)
(* A transaction changes the tables only by its commit, so the argument is *)
(* about what the transactions in flight hold: each is at a stage that fits *)
(* its call (Staged), and no two of them have written the same decision or *)
(* inserted the same key (Exclusive).                                      *)
(***************************************************************************)
EXTENDS Ingestion, TLAPS, WellFoundedInduction

InFlight(s) == tx[s].pc # "IDLE"
IsDecision(s) == tx[s].call.type = "decision"
IsVerdict(s) == tx[s].call.type = "verdict"
Exists(ref) == decisions[ref] # NoRow
KeyOf(s) == Key(tx[s].call, tx[s].at)

\* What a transaction has done by the statement it executes next.
Staged(s) ==
  LET t == tx[s]
      ref == t.call.ref
  IN /\ InFlight(s) => t.call \in Calls /\ t.at \in Times
     /\ ~InFlight(s) => t = NoTx
     /\ t.pc = "FIND" => ref # NoRef
     /\ t.pc = "INSERT" => IsDecision(s)
     /\ t.pc \in {"APPEND", "LOAD", "UPDATE"} => IsVerdict(s)
     /\ t.pc \in {"FIND", "INSERT", "APPEND"} => ~t.novel
     /\ t.pc \in {"FIND", "INSERT", "APPEND", "LOAD", "UPDATE"} => t.written = NoRow
     /\ t.pc = "JUDGE" => t.novel
     /\ t.novel => t.pc \in {"LOAD", "UPDATE", "JUDGE", "COMMIT"}
     /\ t.novel /\ t.pc \in {"JUDGE", "COMMIT"} => t.written # NoRow
     /\ IsDecision(s) /\ t.written # NoRow => t.novel
     /\ IsDecision(s) /\ t.novel => t.written = Created(t.call)
     /\ IsDecision(s) /\ t.novel /\ ref # NoRef => ~Exists(ref)
     /\ IsVerdict(s) /\ t.pc # "FIND" => Exists(ref)
     /\ IsVerdict(s) /\ t.novel => KeyOf(s) \notin events
     /\ IsVerdict(s) /\ t.pc \in {"LOAD", "UPDATE", "COMMIT"} /\ ~t.novel =>
          KeyOf(s) \in events
     /\ IsVerdict(s) /\ t.written # NoRow =>
          t.written = Materialised(t.call, decisions[ref], t.loaded)

\* No two transactions hold the same row or the same key.
Exclusive(s, o) ==
  /\ \A ref \in Refs : ~(Writing(s, ref) /\ Writing(o, ref))
  /\ tx[s].novel /\ tx[o].novel /\ IsVerdict(s) /\ IsVerdict(o) => KeyOf(s) # KeyOf(o)

\* What the rules have said of a transaction that is about to commit.
Sentenced(s) ==
  LET t == tx[s]
  IN /\ t.steady \subseteq enabled
     /\ t.pc = "COMMIT" /\ t.novel =>
          /\ (\E i \in t.steady : Matches(Rules[i], t.written)) => t.trip # NoTrip
          /\ t.trip \in DOMAIN Rules => Matches(Rules[t.trip], t.written)

IInv ==
  /\ TypeOK
  /\ \A s \in Sessions : Staged(s) /\ Sentenced(s)
  /\ \A s, o \in Sessions : s # o => Exclusive(s, o)
  /\ SteppedExactlyOnce

------------------------------------------------------------------------------
(* Rows, keys and rules *)

\* An empty row is none of a decision.
LEMMA NoRowIsNone == NoRow \notin DecisionRows
BY DEF NoRow, DecisionRows, Verdicts, Absent

\* A call inserts a row of a decision.
LEMMA CreatedType ==
  ASSUME NEW c \in Calls
  PROVE  Created(c) \in DecisionRows
<1>1. c.verdict \in Verdicts \cup {Absent} /\ c.outcome \in Outcomes \cup {Absent}
  BY IngestionAssumption
<1>2. Given(c.verdict, "PENDING") \in Verdicts
  BY <1>1 DEF Given, Verdicts
<1>3. \A v, o : StatusOf(v, o) \in {"PENDING", "RESOLVED"}
  BY DEF StatusOf
<1> QED
  BY <1>1, <1>2, <1>3 DEF Created, Row, DecisionRows

\* A verdict leaves a row of a decision, whatever row was read before.
LEMMA MaterialisedType ==
  ASSUME NEW c \in Calls, NEW current \in DecisionRows, NEW loaded
  PROVE  Materialised(c, current, loaded) \in DecisionRows
<1>1. c.verdict \in Verdicts \cup {Absent} /\ c.outcome \in Outcomes \cup {Absent}
  BY IngestionAssumption
<1>2. current.verdict \in Verdicts /\ current.outcome \in Outcomes \cup {Absent}
  BY DEF DecisionRows
<1>3. /\ Given(c.verdict, current.verdict) \in Verdicts
      /\ Given(c.outcome, current.outcome) \in Outcomes \cup {Absent}
  BY <1>1, <1>2 DEF Given
<1>4. \A v, o : StatusOf(v, o) \in {"PENDING", "RESOLVED"}
  BY DEF StatusOf
<1> QED
  BY <1>3, <1>4 DEF Materialised, Row, DecisionRows

\* The key of a verdict event is one of the event keys.
LEMMA EventKeyType ==
  ASSUME NEW c \in Calls, NEW at \in Times, c.type = "verdict"
  PROVE  Key(c, at) \in EventKeys
BY DEF Key, EventKeys

\* The key of a decision is no event key, and says which decision it is.
LEMMA DecisionKeys ==
  /\ \A ref : DecisionKey(ref) \notin EventKeys
  /\ \A ref, other : DecisionKey(ref) = DecisionKey(other) => ref = other
BY DEF DecisionKey, EventKeys, EventKey

\* Among the rules that a row violates, the oldest is found.
LEMMA FirstMatchFinds ==
  ASSUME NEW on \in SUBSET DOMAIN Rules, NEW row
  PROVE  /\ FirstMatch(on, row) \in on \cup {NoTrip}
         /\ FirstMatch(on, row) \in on => Matches(Rules[FirstMatch(on, row)], row)
         /\ (\E i \in on : Matches(Rules[i], row)) => FirstMatch(on, row) \in on
<1> DEFINE matching == {i \in on : Matches(Rules[i], row)}
<1>1. DOMAIN Rules \subseteq Nat \ {0}
  BY IngestionAssumption
<1>2. CASE matching = {}
  <2>1. FirstMatch(on, row) = NoTrip
    BY <1>2 DEF FirstMatch
  <2> QED
    BY <1>1, <1>2, <2>1 DEF NoTrip
<1>3. CASE matching # {}
  <2>1. matching \subseteq Nat
    BY <1>1
  <2>2. \E i \in matching : \A j \in matching : <<j, i>> \notin OpToRel(<, Nat)
    BY <1>3, <2>1, NatLessThanWellFounded, WFMin, Zenon
  <2>3. \A i, j \in Nat : <<j, i>> \notin OpToRel(<, Nat) => i <= j
    <3>1. ASSUME NEW i \in Nat, NEW j \in Nat, j < i
          PROVE  <<j, i>> \in OpToRel(<, Nat)
      BY <3>1, Zenon DEF OpToRel
    <3>2. \A i, j \in Nat : j < i \/ i <= j
      OBVIOUS
    <3> QED
      BY <3>1, <3>2, Zenon
  <2>4. \E i \in matching : \A j \in matching : i <= j
    BY <2>1, <2>2, <2>3, Zenon
  <2>5. Min(matching) \in matching
    BY <2>4 DEF Min
  <2>6. FirstMatch(on, row) = Min(matching)
    BY <1>3 DEF FirstMatch
  <2> QED
    BY <2>5, <2>6
<1> QED
  BY <1>2, <1>3

------------------------------------------------------------------------------
(* The steps keep the invariant *)

\* A step of one transaction that leaves the tables alone keeps the invariant if the
\* transaction is left at a stage that fits and holds nothing of another's.
LEMMA Quiet ==
  ASSUME IInv, NEW s \in Sessions, NEW t \in Transactions,
         tx' = [tx EXCEPT ![s] = t], UNCHANGED Tables,
         delivered' \in 0..MaxCalls, now' \in 1..(delivered' + 1),
         Staged(s)', Sentenced(s)',
         \A o \in Sessions \ {s} : Exclusive(s, o)'
  PROVE  IInv'
<1>1. TypeOK'
  BY DEF IInv, TypeOK, Tables
<1>2. \A o \in Sessions \ {s} : tx'[o] = tx[o]
  BY DEF IInv, TypeOK
<1>3. ASSUME NEW o \in Sessions
      PROVE  Staged(o)' /\ Sentenced(o)'
  <2>1. CASE o = s
    BY <2>1
  <2>2. CASE o # s
    BY <1>2, <2>2 DEF IInv, Staged, Sentenced, InFlight, IsDecision, IsVerdict, Exists,
       KeyOf, Tables
  <2> QED
    BY <2>1, <2>2
<1>4. ASSUME NEW o \in Sessions, NEW p \in Sessions, o # p
      PROVE  Exclusive(o, p)'
  <2>1. CASE o # s /\ p # s
    BY <1>2, <1>4, <2>1 DEF IInv, Exclusive, Writing, IsVerdict, KeyOf
  <2>2. CASE o = s
    BY <1>4, <2>2
  <2>3. CASE p = s
    <3>1. Exclusive(s, o)'
      BY <1>4, <2>3
    <3> QED
      BY <2>3, <3>1 DEF Exclusive
  <2> QED
    BY <2>1, <2>2, <2>3
<1>5. SteppedExactlyOnce'
  BY DEF IInv, SteppedExactlyOnce, Tables
<1> QED
  BY <1>1, <1>3, <1>4, <1>5 DEF IInv

\* An idle transaction holds nothing.
LEMMA NoTxType ==
  /\ NoTx \in Transactions
  /\ AgentReport \in Nat \ {0} /\ DOMAIN Rules = 1..(AgentReport - 1)
<1>1. AgentReport \in Nat \ {0} /\ DOMAIN Rules = 1..(AgentReport - 1)
  BY IngestionAssumption DEF AgentReport
<1> QED
  BY <1>1 DEF NoTx, Transactions, Statements, NoTrip

LEMMA RollbackKeeps ==
  ASSUME IInv, NEW s \in Sessions, Rollback(s)
  PROVE  IInv'
<1>1. tx' = [tx EXCEPT ![s] = NoTx] /\ UNCHANGED <<Tables, now, delivered>>
  BY DEF Rollback, End
<1>2. tx'[s] = NoTx
  BY <1>1 DEF IInv, TypeOK
<1>3. delivered' \in 0..MaxCalls /\ now' \in 1..(delivered' + 1)
  BY <1>1 DEF IInv, TypeOK
<1>4. Staged(s)'
  BY <1>2 DEF Staged, InFlight, IsDecision, IsVerdict, NoTx, NoCall, MakeCall
<1>5. Sentenced(s)'
  BY <1>2 DEF Sentenced, NoTx
<1>6. \A o \in Sessions \ {s} : Exclusive(s, o)'
  BY <1>2 DEF Exclusive, Writing, NoTx
<1> QED
  BY <1>1, <1>3, <1>4, <1>5, <1>6, NoTxType, Quiet

LEMMA BeginKeeps ==
  ASSUME IInv, NEW s \in Sessions, NEW c \in Calls, Begin(s, c)
  PROVE  IInv'
<1> DEFINE at == IF c.at = NoTime THEN now' ELSE c.at
           t == [NoTx EXCEPT !.pc = IF c.ref = NoRef THEN "INSERT" ELSE "FIND",
                             !.call = c, !.at = at, !.steady = enabled]
<1>1. tx' = [tx EXCEPT ![s] = t] /\ UNCHANGED Tables
  BY DEF Begin
<1>2. delivered' \in 0..MaxCalls /\ now' \in 1..(delivered' + 1)
  BY IngestionAssumption DEF Begin, IInv, TypeOK
<1>3. at \in Times
  <2>1. now' \in 1..(MaxCalls + 1)
    <3>1. MaxCalls \in Nat
      BY IngestionAssumption
    <3>2. ASSUME NEW d \in 0..MaxCalls, NEW n \in 1..(d + 1)
          PROVE  n \in 1..(MaxCalls + 1)
      BY <3>1
    <3> QED
      BY <1>2, <3>2
  <2>2. CASE c.at = NoTime
    BY <2>1, <2>2 DEF Times, NoTime
  <2>3. CASE c.at # NoTime
    BY <2>3 DEF Times
  <2> QED
    BY <2>2, <2>3
<1>4. t \in Transactions
  BY <1>3, NoTxType DEF Transactions, Statements, NoTx, IInv, TypeOK
<1>5. tx'[s] = t
  BY <1>1 DEF IInv, TypeOK
<1>6. c.type \in {"decision", "verdict"} /\ (c.type = "verdict" => c.ref # NoRef)
  BY IngestionAssumption
<1>7. Staged(s)'
  BY <1>3, <1>5, <1>6 DEF Staged, InFlight, IsDecision, IsVerdict, NoTx
<1>8. Sentenced(s)'
  BY <1>1, <1>5 DEF Sentenced, NoTx, Tables
<1>9. \A o \in Sessions \ {s} : Exclusive(s, o)'
  BY <1>5 DEF Exclusive, Writing, NoTx
<1> QED
  BY <1>1, <1>2, <1>4, <1>7, <1>8, <1>9, Quiet

\* What every statement of a transaction starts from.
LEMMA Current ==
  ASSUME IInv, NEW s \in Sessions
  PROVE  /\ tx[s] \in Transactions /\ Staged(s) /\ Sentenced(s)
         /\ \A o \in Sessions \ {s} : Exclusive(s, o)
         /\ \A t : (tx' = [tx EXCEPT ![s] = t]) => tx'[s] = t /\ \A o \in Sessions \ {s} : tx'[o] = tx[o]
         /\ UNCHANGED <<now, delivered>> =>
              delivered' \in 0..MaxCalls /\ now' \in 1..(delivered' + 1)
BY DEF IInv, TypeOK

LEMMA FindKeeps ==
  ASSUME IInv, NEW s \in Sessions, Find(s)
  PROVE  IInv'
<1>1. CASE Rollback(s)
  BY <1>1, RollbackKeeps
<1>2. ASSUME NEW to \in {"COMMIT", "INSERT", "APPEND"}, GoTo(s, to),
             UNCHANGED <<Tables, now, delivered>>,
             \/ IsDecision(s) /\ (to = "INSERT" \/ to = "COMMIT")
             \/ IsVerdict(s) /\ Exists(tx[s].call.ref) /\ to = "APPEND"
      PROVE  IInv'
  <2> DEFINE t == [tx[s] EXCEPT !.pc = to]
  <2>1. tx' = [tx EXCEPT ![s] = t] /\ tx[s].pc = "FIND"
    BY <1>2 DEF GoTo, Find
  <2>2. t \in Transactions
    BY Current DEF Transactions, Statements
  <2>3. tx'[s] = t /\ \A o \in Sessions \ {s} : tx'[o] = tx[o]
    BY <2>1, Current
  <2>4. Staged(s)'
    BY <1>2, <2>1, <2>2, <2>3, Current
       DEF Staged, InFlight, IsDecision, IsVerdict, Exists, KeyOf, Tables, Transactions
  <2>5. Sentenced(s)'
    BY <1>2, <2>1, <2>2, <2>3, Current DEF Sentenced, Staged, Tables, Transactions
  <2>6. \A o \in Sessions \ {s} : Exclusive(s, o)'
    BY <2>1, <2>2, <2>3, Current DEF Exclusive, Writing, Staged, Transactions
  <2> QED
    BY <1>2, <2>1, <2>2, <2>4, <2>5, <2>6, Current, Quiet
<1> QED
  BY <1>1, <1>2 DEF Find, IsDecision, IsVerdict, Exists

LEMMA InsertKeeps ==
  ASSUME IInv, NEW s \in Sessions, Insert(s)
  PROVE  IInv'
<1> DEFINE c == tx[s].call
           conflict == c.ref # NoRef /\ decisions[c.ref] # NoRow
           t == [tx[s] EXCEPT !.pc = "JUDGE", !.novel = TRUE, !.written = Created(c)]
<1>1. CASE Rollback(s)
  BY <1>1, RollbackKeeps
<1>2. CASE ~Rollback(s)
  <2>1. /\ tx' = [tx EXCEPT ![s] = t] /\ tx[s].pc = "INSERT" /\ ~Blocked(s)
        /\ ~conflict /\ UNCHANGED <<Tables, now, delivered>>
    BY <1>2 DEF Insert
  <2>2. /\ c \in Calls /\ IsDecision(s) /\ tx[s] \in Transactions
        /\ Created(c) \in DecisionRows /\ Created(c) # NoRow
    BY <2>1, Current, CreatedType, NoRowIsNone DEF Staged, InFlight
  <2>3. t \in Transactions
    BY <2>2 DEF Transactions, Statements
  <2>4. tx'[s] = t /\ \A o \in Sessions \ {s} : tx'[o] = tx[o]
    BY <2>1, Current
  <2>5. Staged(s)'
    BY <2>1, <2>2, <2>3, <2>4, Current
       DEF Staged, InFlight, IsDecision, IsVerdict, Exists, KeyOf, Tables, Transactions
  <2>6. Sentenced(s)'
    BY <2>1, <2>2, <2>4, Current DEF Sentenced, Tables, Transactions
  <2>7. \A o \in Sessions \ {s} : ~Writing(o, c.ref)
    BY <2>1 DEF Blocked
  <2>8. \A o \in Sessions \ {s} : Exclusive(s, o)'
    BY <2>2, <2>4, <2>7 DEF Exclusive, Writing, IsDecision, IsVerdict, Transactions
  <2> QED
    BY <2>1, <2>3, <2>5, <2>6, <2>8, Current, Quiet
<1> QED
  BY <1>1, <1>2

LEMMA AppendEventKeeps ==
  ASSUME IInv, NEW s \in Sessions, AppendEvent(s)
  PROVE  IInv'
<1> DEFINE t == [tx[s] EXCEPT !.pc = "LOAD", !.novel = Appended(s)]
<1>1. /\ tx' = [tx EXCEPT ![s] = t] /\ tx[s].pc = "APPEND" /\ ~Blocked(s)
      /\ UNCHANGED <<Tables, now, delivered>>
  BY DEF AppendEvent
<1>2. /\ IsVerdict(s) /\ tx[s].written = NoRow /\ tx[s] \in Transactions
      /\ Appended(s) = (KeyOf(s) \notin events)
  BY <1>1, Current DEF Staged, Appended, KeyOf
<1>3. t \in Transactions
  BY <1>2 DEF Transactions, Statements
<1>4. tx'[s] = t /\ \A o \in Sessions \ {s} : tx'[o] = tx[o]
  BY <1>1, Current
<1>5. Staged(s)'
  <2>1. CASE KeyOf(s) \notin events
    <3>1. tx'[s] = [tx[s] EXCEPT !.pc = "LOAD", !.novel = TRUE]
      BY <1>2, <1>4, <2>1
    <3>2. /\ tx'[s].pc = "LOAD" /\ tx'[s].novel /\ tx'[s].written = NoRow
          /\ tx'[s].call = tx[s].call /\ tx'[s].at = tx[s].at
      BY <1>2, <3>1 DEF Transactions
    <3>3. KeyOf(s)' \notin events'
      BY <1>1, <2>1, <3>2 DEF KeyOf, Tables
    <3>4. IsVerdict(s)' /\ ~IsDecision(s)' /\ Exists(tx[s].call.ref)'
      BY <1>1, <1>2, <3>2, Current DEF Staged, IsVerdict, IsDecision, Exists, Tables
    <3> QED
      BY <1>1, <3>2, <3>3, <3>4, Current DEF Staged, InFlight
  <2>2. CASE KeyOf(s) \in events
    <3>1. tx'[s] = [tx[s] EXCEPT !.pc = "LOAD", !.novel = FALSE]
      BY <1>2, <1>4, <2>2
    <3> QED
      BY <1>1, <1>2, <2>2, <3>1, Current
         DEF Staged, InFlight, IsDecision, IsVerdict, Exists, KeyOf, Tables, Transactions
  <2> QED
    BY <2>1, <2>2
<1>6. Sentenced(s)'
  BY <1>1, <1>2, <1>4, Current DEF Sentenced, Tables, Transactions
<1>7. \A o \in Sessions \ {s} : ~(tx[o].novel /\ KeyOf(o) = KeyOf(s))
  BY <1>1 DEF Blocked, Appending, KeyOf
<1>8. \A o \in Sessions \ {s} : Exclusive(s, o)'
  BY <1>2, <1>4, <1>7 DEF Exclusive, Writing, IsVerdict, KeyOf, Transactions
<1> QED
  BY <1>1, <1>3, <1>5, <1>6, <1>8, Current, Quiet

\* A verdict past its append stays staged by a step that leaves its call and the tables
\* alone, if what it has written by then is as it should be.
LEMMA SameTables ==
  ASSUME IInv, NEW s \in Sessions, IsVerdict(s), tx[s].pc \in {"LOAD", "UPDATE"},
         UNCHANGED <<Tables, now, delivered>>,
         tx'[s].call = tx[s].call, tx'[s].at = tx[s].at, tx'[s].novel = tx[s].novel,
         \/ tx'[s].pc = "UPDATE" /\ tx'[s].written = NoRow
         \/ /\ tx'[s].pc = IF tx[s].novel THEN "JUDGE" ELSE "COMMIT"
            /\ tx'[s].written # NoRow
            /\ tx'[s].written =
                 Materialised(tx[s].call, decisions[tx[s].call.ref], tx'[s].loaded)
  PROVE  Staged(s)'
<1>1. /\ tx[s].call \in Calls /\ tx[s].at \in Times /\ Exists(tx[s].call.ref)
      /\ tx[s].novel => KeyOf(s) \notin events
      /\ ~tx[s].novel => KeyOf(s) \in events
  BY Current DEF Staged, InFlight
<1>2. /\ IsVerdict(s)' /\ ~IsDecision(s)' /\ InFlight(s)'
      /\ KeyOf(s)' = KeyOf(s) /\ decisions' = decisions /\ events' = events
  BY DEF IsVerdict, IsDecision, InFlight, KeyOf, Tables
<1> QED
  BY <1>1, <1>2 DEF Staged, Exists

LEMMA LoadKeeps ==
  ASSUME IInv, NEW s \in Sessions, Load(s)
  PROVE  IInv'
<1> DEFINE t == [tx[s] EXCEPT !.pc = "UPDATE", !.loaded = decisions[tx[s].call.ref]]
<1>1. /\ tx' = [tx EXCEPT ![s] = t] /\ tx[s].pc = "LOAD"
      /\ UNCHANGED <<Tables, now, delivered>>
  BY DEF Load
<1>2. /\ IsVerdict(s) /\ tx[s].written = NoRow /\ tx[s] \in Transactions
      /\ tx[s].call \in Calls
  BY <1>1, Current DEF Staged, InFlight
<1>3. tx[s].call.ref \in Refs
  BY <1>2, IngestionAssumption DEF IsVerdict, Refs
<1>4. t \in Transactions
  BY <1>2, <1>3 DEF Transactions, Statements, IInv, TypeOK
<1>5. tx'[s] = t /\ \A o \in Sessions \ {s} : tx'[o] = tx[o]
  BY <1>1, Current
<1>6. Staged(s)'
  <2>1. /\ t.pc = "UPDATE" /\ t.written = NoRow /\ t.call = tx[s].call
        /\ t.at = tx[s].at /\ t.novel = tx[s].novel
    BY <1>2 DEF Transactions
  <2> QED
    BY <1>1, <1>2, <1>5, <2>1, SameTables
<1>7. Sentenced(s)'
  BY <1>1, <1>2, <1>5, Current DEF Sentenced, Tables, Transactions
<1>8. \A o \in Sessions \ {s} : Exclusive(s, o)'
  BY <1>2, <1>5, Current DEF Exclusive, Writing, IsVerdict, KeyOf, Transactions
<1> QED
  BY <1>1, <1>4, <1>6, <1>7, <1>8, Current, Quiet

LEMMA UpdateKeeps ==
  ASSUME IInv, NEW s \in Sessions, Update(s)
  PROVE  IInv'
<1> DEFINE c == tx[s].call
           row == Materialised(c, decisions[c.ref], tx[s].loaded)
           t == [tx[s] EXCEPT !.pc = IF tx[s].novel THEN "JUDGE" ELSE "COMMIT",
                              !.written = row]
<1>1. /\ tx' = [tx EXCEPT ![s] = t] /\ tx[s].pc = "UPDATE" /\ ~Blocked(s)
      /\ UNCHANGED <<Tables, now, delivered>>
  BY DEF Update
<1>2. /\ IsVerdict(s) /\ tx[s] \in Transactions /\ c \in Calls /\ Exists(c.ref)
  BY <1>1, Current DEF Staged, InFlight
<1>3. c.ref \in Refs /\ decisions[c.ref] \in DecisionRows
  BY <1>2, IngestionAssumption DEF IsVerdict, Refs, Exists, IInv, TypeOK
<1>4. row \in DecisionRows /\ row # NoRow
  BY <1>2, <1>3, MaterialisedType, NoRowIsNone
<1>5. t \in Transactions
  BY <1>2, <1>4 DEF Transactions, Statements
<1>6. tx'[s] = t /\ \A o \in Sessions \ {s} : tx'[o] = tx[o]
  BY <1>1, Current
<1>7. Staged(s)'
  <2> HIDE DEF row
  <2>1. row = Materialised(t.call, decisions[t.call.ref], t.loaded)
    BY <1>2 DEF row, Transactions
  <2>2. /\ t.pc = (IF tx[s].novel THEN "JUDGE" ELSE "COMMIT") /\ t.written = row
        /\ t.call = tx[s].call /\ t.at = tx[s].at /\ t.novel = tx[s].novel
    BY <1>2 DEF Transactions
  <2> HIDE DEF t
  <2> QED
    BY <1>1, <1>2, <1>4, <1>6, <2>1, <2>2, SameTables
<1>8. Sentenced(s)'
  BY <1>1, <1>2, <1>6, Current DEF Sentenced, Tables, Transactions
<1>9. \A o \in Sessions \ {s} : ~Writing(o, c.ref)
  BY <1>1 DEF Blocked
<1>10. \A o \in Sessions \ {s} : Exclusive(s, o)'
  BY <1>2, <1>6, <1>9, Current DEF Exclusive, Writing, IsVerdict, KeyOf, Transactions
<1> QED
  BY <1>1, <1>5, <1>7, <1>8, <1>10, Current, Quiet

LEMMA JudgeKeeps ==
  ASSUME IInv, NEW s \in Sessions, Judge(s)
  PROVE  IInv'
<1> DEFINE trip == IF tx[s].call.tripped THEN AgentReport
                   ELSE FirstMatch(enabled, Judged(s))
           t == [tx[s] EXCEPT !.pc = "COMMIT", !.trip = trip]
<1>1. /\ tx' = [tx EXCEPT ![s] = t] /\ tx[s].pc = "JUDGE"
      /\ UNCHANGED <<Tables, now, delivered>>
  BY DEF Judge
<1>2. tx[s] \in Transactions /\ tx[s].novel /\ enabled \in SUBSET DOMAIN Rules
  BY <1>1, Current DEF Staged, IInv, TypeOK
<1>3. /\ FirstMatch(enabled, tx[s].written) \in enabled \cup {NoTrip}
      /\ FirstMatch(enabled, tx[s].written) \in enabled =>
           Matches(Rules[FirstMatch(enabled, tx[s].written)], tx[s].written)
      /\ (\E i \in enabled : Matches(Rules[i], tx[s].written)) =>
           FirstMatch(enabled, tx[s].written) \in enabled
  BY <1>2, FirstMatchFinds
<1>4. /\ trip \in 0..AgentReport
      /\ (\E i \in enabled : Matches(Rules[i], tx[s].written)) => trip # NoTrip
      /\ trip \in DOMAIN Rules => Matches(Rules[trip], tx[s].written)
  BY <1>2, <1>3, NoTxType DEF Judged, NoTrip
<1> HIDE DEF trip
<1>5. t \in Transactions
  BY <1>2, <1>4 DEF Transactions, Statements
<1>6. tx'[s] = t /\ \A o \in Sessions \ {s} : tx'[o] = tx[o]
  BY <1>1, Current
<1>7. Staged(s)'
  BY <1>1, <1>2, <1>5, <1>6, Current
     DEF Staged, InFlight, IsDecision, IsVerdict, Exists, KeyOf, Tables, Transactions
<1>8. Sentenced(s)'
  BY <1>1, <1>2, <1>4, <1>5, <1>6, Current DEF Sentenced, Tables, Transactions
<1>9. \A o \in Sessions \ {s} : Exclusive(s, o)'
  BY <1>2, <1>6, Current DEF Exclusive, Writing, IsVerdict, KeyOf, Transactions
<1> QED
  BY <1>1, <1>5, <1>7, <1>8, <1>9, Current, Quiet

\* What a commit does to the tables.
LEMMA CommitShape ==
  ASSUME IInv, NEW s \in Sessions, Commit(s)
  PROVE  LET c == tx[s].call
         IN /\ tx[s] \in Transactions /\ tx[s].pc = "COMMIT" /\ c \in Calls
            /\ tx' = [tx EXCEPT ![s] = NoTx] /\ tx'[s] = NoTx
            /\ \A o \in Sessions \ {s} : tx'[o] = tx[o]
            /\ UNCHANGED <<enabled, now, delivered>>
            /\ \A ref \in Refs : decisions'[ref] =
                 IF Writing(s, ref) THEN tx[s].written ELSE decisions[ref]
            /\ events' = events \cup IF tx[s].novel /\ IsVerdict(s) THEN {KeyOf(s)} ELSE {}
            /\ KeyOf(s) \in Keys
            /\ \A k \in Keys : steps'[k] =
                 IF tx[s].novel /\ k = KeyOf(s) THEN steps[k] + 1 ELSE steps[k]
            /\ TypeOK'
<1> DEFINE c == tx[s].call
<1>1. /\ tx[s] \in Transactions /\ tx[s].pc = "COMMIT" /\ c \in Calls
      /\ tx[s].at \in Times
  BY Current DEF Commit, Staged, InFlight
<1>2. tx' = [tx EXCEPT ![s] = NoTx] /\ UNCHANGED <<enabled, now, delivered>>
  BY DEF Commit, End
<1>3. tx'[s] = NoTx /\ \A o \in Sessions \ {s} : tx'[o] = tx[o]
  BY <1>2, Current
<1>4. c.type \in {"decision", "verdict"} /\ (c.ref \in Refs \/ c.ref = NoRef)
  BY <1>1, IngestionAssumption DEF Refs
<1>5. KeyOf(s) \in Keys /\ (IsVerdict(s) => KeyOf(s) \in EventKeys)
  BY <1>1, <1>4, EventKeyType DEF KeyOf, Key, Keys, IsVerdict
<1>6. /\ \A ref \in Refs : decisions'[ref] =
            IF Writing(s, ref) THEN tx[s].written ELSE decisions[ref]
      /\ decisions' \in [Refs -> DecisionRows \cup {NoRow}]
  <2>1. decisions \in [Refs -> DecisionRows \cup {NoRow}]
    BY DEF IInv, TypeOK
  <2>2. decisions' = IF c.ref # NoRef /\ tx[s].written # NoRow
                     THEN [decisions EXCEPT ![c.ref] = tx[s].written] ELSE decisions
    BY DEF Commit
  <2>3. NoRef \notin Refs /\ tx[s].written \in DecisionRows \cup {NoRow}
    BY <1>1 DEF Refs, Transactions
  <2> QED
    BY <1>4, <2>1, <2>2, <2>3 DEF Writing
<1>7. events' = events \cup IF tx[s].novel /\ IsVerdict(s) THEN {KeyOf(s)} ELSE {}
  BY DEF Commit, IsVerdict, KeyOf
<1>8. /\ \A k \in Keys : steps'[k] =
            IF tx[s].novel /\ k = KeyOf(s) THEN steps[k] + 1 ELSE steps[k]
      /\ steps' \in [Keys -> Nat]
  <2>1. steps \in [Keys -> Nat]
    BY DEF IInv, TypeOK
  <2>2. steps' = IF tx[s].novel THEN [steps EXCEPT ![KeyOf(s)] = @ + 1] ELSE steps
    BY DEF Commit, KeyOf
  <2> QED
    BY <1>5, <2>1, <2>2
<1>9. TypeOK'
  <2>1. tx' \in [Sessions -> Transactions]
    BY <1>2, NoTxType DEF IInv, TypeOK
  <2>2. events' \subseteq EventKeys
    BY <1>5, <1>7 DEF IInv, TypeOK
  <2> QED
    BY <1>2, <1>6, <1>8, <2>1, <2>2 DEF IInv, TypeOK
<1> QED
  BY <1>1, <1>2, <1>3, <1>5, <1>6, <1>7, <1>8, <1>9

\* No commit touches the row of a transaction that has written it, or the key of one that
\* has inserted it.
LEMMA CommitSpares ==
  ASSUME IInv, NEW s \in Sessions, Commit(s), NEW o \in Sessions \ {s}
  PROVE  Staged(o)'
<1> DEFINE ref == tx[o].call.ref
<1>1. tx[o] \in Transactions /\ Staged(o) /\ Exclusive(s, o) /\ tx'[o] = tx[o]
  BY Current, CommitShape
<1>2. CASE ~InFlight(o)
  BY <1>1, <1>2 DEF Staged, InFlight, IsDecision, IsVerdict, NoTx, NoCall, MakeCall
<1>3. CASE InFlight(o)
  <2>1. tx[o].call \in Calls /\ (ref \in Refs \/ ref = NoRef)
    BY <1>1, <1>3 DEF Staged, Refs
  <2>2. ref \in Refs /\ tx[o].written # NoRow => decisions'[ref] = decisions[ref]
    <3>1. ref \in Refs /\ tx[o].written # NoRow => Writing(o, ref)
      BY DEF Writing, Refs
    <3>2. ref \in Refs /\ Writing(o, ref) => ~Writing(s, ref)
      BY <1>1 DEF Exclusive
    <3> QED
      BY <3>1, <3>2, CommitShape
  <2>3. ref \in Refs /\ Exists(ref) => Exists(ref)'
    BY CommitShape DEF Exists, Writing
  <2>4. IsVerdict(o) => ref \in Refs
    BY <2>1, IngestionAssumption DEF IsVerdict
  <2>5. IsDecision(o) /\ tx[o].novel /\ ref # NoRef => ~Exists(ref)'
    <3>1. SUFFICES ASSUME IsDecision(o), tx[o].novel, ref # NoRef
                   PROVE  ~Exists(ref)'
      OBVIOUS
    <3>2. ref \in Refs /\ ~Exists(ref) /\ tx[o].written = Created(tx[o].call)
      BY <1>1, <2>1, <3>1 DEF Staged
    <3>3. tx[o].written # NoRow
      BY <2>1, <3>2, CreatedType, NoRowIsNone
    <3> QED
      BY <1>1, <2>2, <3>2, <3>3 DEF Exists
  <2>6. /\ IsVerdict(o) /\ tx[o].novel => KeyOf(o) \notin events'
        /\ KeyOf(o) \in events => KeyOf(o) \in events'
    BY <1>1, CommitShape DEF Exclusive, Staged
  <2>7. KeyOf(o)' = KeyOf(o) /\ IsVerdict(o)' = IsVerdict(o) /\ IsDecision(o)' = IsDecision(o)
    BY <1>1 DEF KeyOf, IsVerdict, IsDecision
  <2>8. ref' = ref /\ InFlight(o)'
    BY <1>1, <1>3 DEF InFlight
  <2> QED
    BY <1>1, <1>3, <2>1, <2>2, <2>3, <2>4, <2>5, <2>6, <2>7, <2>8 DEF Staged
<1> QED
  BY <1>2, <1>3

LEMMA CommitKeeps ==
  ASSUME IInv, NEW s \in Sessions, Commit(s)
  PROVE  IInv'
<1> DEFINE c == tx[s].call
<1>1. Staged(s) /\ tx[s].pc = "COMMIT" /\ c \in Calls /\ tx[s] \in Transactions
  BY Current, CommitShape
<1>2. ASSUME NEW o \in Sessions
      PROVE  Staged(o)' /\ Sentenced(o)'
  <2>1. CASE o = s
    <3>1. tx'[o] = NoTx
      BY <2>1, CommitShape
    <3>2. Staged(o)'
      BY <3>1 DEF Staged, InFlight, IsDecision, IsVerdict, NoTx, NoCall, MakeCall
    <3>3. Sentenced(o)'
      BY <3>1 DEF Sentenced, NoTx
    <3> QED
      BY <3>2, <3>3
  <2>2. CASE o # s
    <3>1. Sentenced(o)'
      BY <2>2, Current, CommitShape DEF Sentenced
    <3> QED
      BY <2>2, <3>1, CommitSpares
  <2> QED
    BY <2>1, <2>2
<1>3. ASSUME NEW o \in Sessions, NEW p \in Sessions, o # p
      PROVE  Exclusive(o, p)'
  <2>1. CASE o = s \/ p = s
    BY <2>1, CommitShape DEF Exclusive, Writing, NoTx
  <2>2. CASE o # s /\ p # s
    BY <1>3, <2>2, CommitShape DEF IInv, Exclusive, Writing, IsVerdict, KeyOf
  <2> QED
    BY <2>1, <2>2
<1>4. SteppedExactlyOnce'
  <2>1. ASSUME NEW ref \in Refs
        PROVE  steps'[DecisionKey(ref)] = IF decisions'[ref] = NoRow THEN 0 ELSE 1
    <3>1. /\ DecisionKey(ref) \in Keys
          /\ steps[DecisionKey(ref)] = IF decisions[ref] = NoRow THEN 0 ELSE 1
      BY DEF IInv, SteppedExactlyOnce, Keys
    <3>2. CASE tx[s].novel /\ IsDecision(s) /\ c.ref = ref
      <4>1. ref # NoRef /\ decisions[ref] = NoRow /\ Writing(s, ref)
        BY <1>1, <3>2 DEF Staged, Exists, Writing, Refs
      <4>2. KeyOf(s) = DecisionKey(ref)
        BY <3>2 DEF KeyOf, Key, IsDecision
      <4> QED
        BY <3>1, <3>2, <4>1, <4>2, CommitShape DEF Writing
    <3>3. CASE ~(tx[s].novel /\ IsDecision(s) /\ c.ref = ref)
      <4>1. c.type \in {"decision", "verdict"} /\ (IsVerdict(s) => KeyOf(s) \in EventKeys)
        BY <1>1, IngestionAssumption, EventKeyType DEF Staged, InFlight, IsVerdict, KeyOf
      <4>2. tx[s].novel => KeyOf(s) # DecisionKey(ref)
        BY <3>3, <4>1, DecisionKeys DEF KeyOf, Key, IsDecision, IsVerdict
      <4>3. steps'[DecisionKey(ref)] = steps[DecisionKey(ref)]
        BY <3>1, <4>2, CommitShape
      <4>4. Writing(s, ref) => decisions[ref] # NoRow /\ tx[s].written # NoRow
        BY <1>1, <3>3, <4>1 DEF Writing, Staged, IsDecision, IsVerdict, Exists
      <4> QED
        BY <3>1, <4>3, <4>4, CommitShape
    <3> QED
      BY <3>2, <3>3
  <2>2. ASSUME NEW k \in EventKeys
        PROVE  steps'[k] = IF k \in events' THEN 1 ELSE 0
    <3>1. k \in Keys /\ steps[k] = IF k \in events THEN 1 ELSE 0
      BY DEF IInv, SteppedExactlyOnce, Keys
    <3>2. c.type \in {"decision", "verdict"}
      BY <1>1, IngestionAssumption
    <3>3. k = KeyOf(s) => IsVerdict(s)
      BY <3>2, DecisionKeys DEF KeyOf, Key, IsVerdict
    <3>4. IsVerdict(s) /\ tx[s].novel => KeyOf(s) \notin events
      BY <1>1 DEF Staged
    <3> QED
      BY <3>1, <3>3, <3>4, CommitShape
  <2> QED
    BY <2>1, <2>2 DEF SteppedExactlyOnce
<1> QED
  BY <1>2, <1>3, <1>4, CommitShape DEF IInv

LEMMA SetEnabledKeeps ==
  ASSUME IInv, NEW i \in DOMAIN Rules, NEW on \in BOOLEAN, SetEnabled(i, on)
  PROVE  IInv'
<1>1. /\ enabled' \subseteq DOMAIN Rules
      /\ UNCHANGED <<decisions, events, steps, now, delivered>>
  BY DEF SetEnabled, IInv, TypeOK
<1>2. /\ tx' \in [Sessions -> Transactions]
      /\ \A s \in Sessions : tx'[s] = [tx[s] EXCEPT !.steady = @ \cap enabled']
  BY <1>1 DEF SetEnabled, IInv, TypeOK, Transactions
<1>3. TypeOK'
  BY <1>1, <1>2 DEF IInv, TypeOK
<1>4. ASSUME NEW s \in Sessions
      PROVE  /\ tx'[s].steady = tx[s].steady \cap enabled'
             /\ tx'[s].pc = tx[s].pc /\ tx'[s].call = tx[s].call /\ tx'[s].at = tx[s].at
             /\ tx'[s].loaded = tx[s].loaded /\ tx'[s].written = tx[s].written
             /\ tx'[s].novel = tx[s].novel /\ tx'[s].trip = tx[s].trip
             /\ tx[s] = NoTx => tx'[s] = NoTx
  <2>1. tx[s] \in Transactions
    BY DEF IInv, TypeOK
  <2> QED
    BY <1>2, <2>1 DEF Transactions, NoTx
<1>5. ASSUME NEW s \in Sessions
      PROVE  Staged(s)' /\ Sentenced(s)'
  <2>1. Staged(s)'
    BY <1>1, <1>4, Current DEF Staged, InFlight, IsDecision, IsVerdict, Exists, KeyOf
  <2>2. Sentenced(s)'
    BY <1>4, Current DEF Sentenced
  <2> QED
    BY <2>1, <2>2
<1>6. \A s, o \in Sessions : s # o => Exclusive(s, o)'
  BY <1>4 DEF IInv, Exclusive, Writing, IsVerdict, KeyOf
<1>7. SteppedExactlyOnce'
  BY <1>1 DEF IInv, SteppedExactlyOnce
<1> QED
  BY <1>3, <1>5, <1>6, <1>7 DEF IInv

------------------------------------------------------------------------------
(* The theorems *)

LEMMA InitKeeps == Init => IInv
<1> SUFFICES ASSUME Init PROVE IInv
  OBVIOUS
<1>1. TypeOK
  BY NoTxType, IngestionAssumption DEF Init, TypeOK
<1>2. \A s \in Sessions : tx[s] = NoTx
  BY DEF Init
<1>3. \A s \in Sessions : Staged(s)
  <2>1. TAKE s \in Sessions
  <2>2. tx[s] = NoTx
    BY <1>2
  <2> QED
    BY <2>2 DEF Staged, InFlight, IsDecision, IsVerdict, NoTx, NoCall, MakeCall
<1>4. \A s \in Sessions : Sentenced(s)
  BY <1>2 DEF Sentenced, NoTx
<1>5. \A s, o \in Sessions : s # o => Exclusive(s, o)
  BY <1>2 DEF Exclusive, Writing, NoTx
<1>6. SteppedExactlyOnce
  BY DEF Init, SteppedExactlyOnce, Keys
<1> QED
  BY <1>1, <1>3, <1>4, <1>5, <1>6 DEF IInv

LEMMA NextKeeps == IInv /\ [Next]_vars => IInv'
<1> SUFFICES ASSUME IInv, [Next]_vars PROVE IInv'
  OBVIOUS
<1>1. CASE UNCHANGED vars
  BY <1>1 DEF vars, IInv, TypeOK, Staged, Sentenced, Exclusive, SteppedExactlyOnce, InFlight,
     IsDecision, IsVerdict, Exists, KeyOf, Writing
<1>2. ASSUME NEW i \in DOMAIN Rules, NEW on \in BOOLEAN, SetEnabled(i, on)
      PROVE  IInv'
  BY <1>2, SetEnabledKeeps
<1>3. ASSUME NEW s \in Sessions, NEW c \in Calls, Begin(s, c)
      PROVE  IInv'
  BY <1>3, BeginKeeps
<1>4. ASSUME NEW s \in Sessions,
             \/ Find(s) \/ Insert(s) \/ AppendEvent(s) \/ Load(s)
             \/ Update(s) \/ Judge(s) \/ Commit(s) \/ Fail(s)
      PROVE  IInv'
  BY <1>4, FindKeeps, InsertKeeps, AppendEventKeeps, LoadKeeps, UpdateKeeps, JudgeKeeps,
     CommitKeeps, RollbackKeeps DEF Fail
<1> QED
  BY <1>1, <1>2, <1>3, <1>4 DEF Next

\* The inductive invariant holds in every reachable state.
THEOREM Invariance == Spec => []IInv
BY InitKeeps, NextKeeps, PTL DEF Spec

\* Every reachable state is well typed, whatever the producers call and however many
\* requests run at a time.
THEOREM IngestionTypeCorrect == Spec => []TypeOK
<1>1. IInv => TypeOK
  BY DEF IInv
<1> QED
  BY <1>1, Invariance, PTL

\* Each decision and each verdict event in the database has advanced the lifecycle exactly
\* once, for any number of deliveries of any calls, in any order and at the same time: what
\* recompute promises its producers.
THEOREM ExactlyOnce == Spec => []SteppedExactlyOnce
<1>1. IInv => SteppedExactlyOnce
  BY DEF IInv
<1> QED
  BY <1>1, Invariance, PTL

\* Only the commit of a request changes a row or a count of steps.
LEMMA TablesChangeByCommit ==
  ASSUME IInv, [Next]_vars, decisions' # decisions \/ steps' # steps
  PROVE  \E s \in Sessions : Commit(s) /\ Commits(s)
<1>1. Next
  BY DEF vars
<1>2. PICK s \in Sessions : Commit(s)
  BY <1>1 DEF Next, SetEnabled, Begin, Find, Insert, AppendEvent, Load, Update, Judge, Fail,
     Rollback, Tables
<1>3. Commits(s)
  BY <1>2, CommitShape DEF Commits, NoTx
<1> QED
  BY <1>2, <1>3

\* A row that changes without a step of the lifecycle is rewritten by an event that is in
\* the log: recompute loses no other change.
THEOREM SilenceIsReplay == Spec => SilentChangesAreReplays
<1>1. IInv /\ [Next]_vars => SilentChangeIsReplay
  <2> SUFFICES ASSUME IInv, [Next]_vars, decisions' # decisions, steps' = steps
               PROVE  \E s \in Sessions : Commits(s) /\ KeyOf(s) \in events
    BY DEF SilentChangeIsReplay, KeyOf
  <2>1. PICK s \in Sessions : Commit(s) /\ Commits(s)
    BY TablesChangeByCommit
  <2>2. ~tx[s].novel
    <3>1. SUFFICES ASSUME tx[s].novel PROVE FALSE
      OBVIOUS
    <3>2. KeyOf(s) \in Keys /\ steps'[KeyOf(s)] = steps[KeyOf(s)] + 1
      BY <2>1, <3>1, CommitShape
    <3>3. steps[KeyOf(s)] \in Nat
      BY <3>2 DEF IInv, TypeOK
    <3> QED
      BY <3>2, <3>3
  <2>3. PICK ref \in Refs : Writing(s, ref)
    <3>1. decisions \in [Refs -> DecisionRows \cup {NoRow}]
          /\ decisions' \in [Refs -> DecisionRows \cup {NoRow}]
      BY <2>1, CommitShape DEF IInv, TypeOK
    <3>2. PICK ref \in Refs : decisions'[ref] # decisions[ref]
      BY <3>1
    <3> QED
      BY <2>1, <3>2, CommitShape
  <2>4. tx[s].pc = "COMMIT" /\ tx[s].call \in Calls /\ Staged(s)
    BY <2>1, CommitShape, Current
  <2>5. IsVerdict(s)
    BY <2>2, <2>3, <2>4, IngestionAssumption DEF Staged, Writing, IsDecision, IsVerdict
  <2> QED
    BY <2>1, <2>2, <2>4, <2>5 DEF Staged
<1> QED
  BY <1>1, Invariance, PTL DEF Spec, SilentChangesAreReplays

\* Whatever is new is judged as it is committed, by every rule that was enabled throughout,
\* whoever else writes to the decision at the same time.
THEOREM Judgement == Spec => NothingNewIsUnjudged
<1>1. IInv /\ [Next]_vars => NewIsJudged
  BY DEF IInv, Sentenced, NewIsJudged, Commits
<1> QED
  BY <1>1, Invariance, PTL DEF Spec, NothingNewIsUnjudged

\* The status column is wrong only where two verdicts on one decision overlapped: the one
\* weakness of computing it from a row read before the update.
THEOREM StatusLag == Spec => StatusLagsOnlyByOverlap
<1>1. IInv /\ [Next]_vars => LagIsOverlap
  <2> SUFFICES ASSUME IInv, [Next]_vars, NEW ref \in Refs,
                      decisions'[ref] # decisions[ref], ~Consistent(decisions'[ref])
               PROVE  \E s \in Sessions :
                        Commits(s) /\ tx[s].call.ref = ref /\ tx[s].loaded # decisions[ref]
    BY DEF LagIsOverlap
  <2>1. PICK s \in Sessions : Commit(s) /\ Commits(s)
    BY TablesChangeByCommit
  <2> DEFINE c == tx[s].call
  <2>2. Writing(s, ref) /\ decisions'[ref] = tx[s].written
    BY <2>1, CommitShape
  <2>3. c \in Calls /\ Staged(s) /\ c.ref = ref /\ tx[s].written # NoRow
    BY <2>1, <2>2, CommitShape, Current DEF Writing
  <2>4. CASE c.type = "decision"
    <3>1. tx[s].written = Created(c)
      BY <2>3, <2>4 DEF Staged, IsDecision
    <3> QED
      BY <2>2, <3>1 DEF Consistent, Created, Row
  <2>5. CASE c.type = "verdict"
    <3>1. tx[s].written = Materialised(c, decisions[ref], tx[s].loaded)
      BY <2>3, <2>5 DEF Staged, IsVerdict
    <3>2. tx[s].loaded # decisions[ref]
      BY <2>2, <3>1 DEF Consistent, Materialised, Row
    <3> QED
      BY <2>1, <2>3, <3>2
  <2> QED
    BY <2>3, <2>4, <2>5, IngestionAssumption
<1> QED
  BY <1>1, Invariance, PTL DEF Spec, StatusLagsOnlyByOverlap

------------------------------------------------------------------------------
(* The ledger *)

\* A commit changes the tables only for what the transaction says that is new, or has
\* written of a decision that is there.
LEMMA CommitSays ==
  ASSUME IInv, NEW s \in Sessions, Commit(s),
         decisions' # decisions \/ steps' # steps
  PROVE  \/ /\ IsDecision(s) /\ tx[s].novel /\ tx[s].written = Created(tx[s].call)
            /\ tx[s].call.ref \in Refs => decisions[tx[s].call.ref] = NoRow
         \/ /\ IsVerdict(s) /\ tx[s].call.ref \in Refs
            /\ decisions[tx[s].call.ref] \in DecisionRows
            /\ tx[s].written =
                 Materialised(tx[s].call, decisions[tx[s].call.ref], tx[s].loaded)
            /\ tx[s].written # NoRow
            /\ tx[s].novel <=> KeyOf(s) \notin events
<1> DEFINE c == tx[s].call
<1>1. /\ c \in Calls /\ Staged(s) /\ tx[s].pc = "COMMIT"
      /\ \A ref \in Refs : decisions'[ref] =
           IF Writing(s, ref) THEN tx[s].written ELSE decisions[ref]
      /\ \A k \in Keys : steps'[k] =
           IF tx[s].novel /\ k = KeyOf(s) THEN steps[k] + 1 ELSE steps[k]
      /\ TypeOK /\ TypeOK'
  BY CommitShape, Current DEF IInv
<1>2. tx[s].novel \/ tx[s].written # NoRow
  <2> SUFFICES ASSUME ~tx[s].novel, tx[s].written = NoRow PROVE FALSE
    OBVIOUS
  <2>1. decisions' = decisions
    BY <1>1 DEF Writing, TypeOK
  <2>2. steps' = steps
    BY <1>1 DEF TypeOK
  <2> QED
    BY <2>1, <2>2
<1>3. IsDecision(s) \/ IsVerdict(s)
  BY <1>1, IngestionAssumption DEF IsDecision, IsVerdict
<1>4. NoRef \notin Refs
  BY DEF Refs
<1>5. CASE IsDecision(s)
  BY <1>1, <1>2, <1>4, <1>5 DEF Staged, Exists
<1>6. CASE IsVerdict(s)
  <2>1. c.ref \in Refs
    BY <1>1, <1>6, IngestionAssumption DEF IsVerdict, Refs
  <2>2. decisions[c.ref] \in DecisionRows
    BY <1>1, <1>6, <2>1 DEF Staged, Exists, TypeOK
  <2>3. tx[s].written # NoRow
    BY <1>1, <1>2 DEF Staged
  <2> QED
    BY <1>1, <1>6, <2>1, <2>2, <2>3 DEF Staged
<1> QED
  BY <1>3, <1>5, <1>6

\* Whatever overlaps, is repeated or fails, the verdicts, outcomes and steps are those of
\* reports that came one at a time, each at the commit of its request: recording is
\* serialisable but for the status column, though no request locks what it reads.
THEOREM RecordsLikeALedger == Spec => ImplementsLedger
<1>1. Init => Abstract!Init
  BY DEF Init, Abstract!Init, Abstract!Nothing, NoRow
<1>2. IInv /\ [Next]_vars => [Abstract!Next]_(Abstract!vars)
  <2> SUFFICES ASSUME IInv, [Next]_vars
               PROVE  Abstract!Next \/ UNCHANGED Abstract!vars
    OBVIOUS
  <2>1. CASE decisions' = decisions /\ steps' = steps
    BY <2>1 DEF Abstract!vars
  <2>2. CASE decisions' # decisions \/ steps' # steps
    <3>1. PICK s \in Sessions : Commit(s)
      BY <2>2, TablesChangeByCommit
    <3> DEFINE c == tx[s].call
               key == KeyOf(s)
               entry(ref) == [verdict |-> decisions[ref].verdict,
                              outcome |-> decisions[ref].outcome]
    <3>2. /\ c \in Calls /\ tx[s].at \in Times /\ key \in Keys
          /\ \A ref \in Refs : decisions'[ref] =
               IF Writing(s, ref) THEN tx[s].written ELSE decisions[ref]
          /\ \A k \in Keys : steps'[k] =
               IF tx[s].novel /\ k = key THEN steps[k] + 1 ELSE steps[k]
          /\ steps \in [Keys -> Nat] /\ steps' \in [Keys -> Nat]
      BY <3>1, CommitShape, Current DEF Staged, InFlight, IInv, TypeOK
    <3>3. PICK r \in Reports : r = Report(c, tx[s].at)
      BY <3>2 DEF Reports
    <3>4. r.type = c.type /\ r.key = key /\ r.ref = c.ref /\ r.verdict = c.verdict
            /\ r.outcome = c.outcome
      BY <3>3 DEF Report, KeyOf
    <3>5. CASE /\ IsDecision(s) /\ tx[s].novel /\ tx[s].written = Created(c)
               /\ c.ref \in Refs => decisions[c.ref] = NoRow
      <4>1. c.ref \in Refs => entry(c.ref) = Abstract!Nothing
        BY <3>5 DEF Abstract!Nothing, NoRow
      <4>2. steps' = [steps EXCEPT ![key] = @ + 1]
        BY <3>2, <3>5
      <4>3. \A ref \in Refs : Writing(s, ref) <=> ref = c.ref
        <5>1. Created(c) # NoRow
          BY <3>2, CreatedType, NoRowIsNone
        <5> QED
          BY <3>5, <5>1 DEF Writing, Refs
      <4>4. \A ref \in Refs :
              entry(ref)' = IF ref = c.ref
                            THEN [verdict |-> Abstract!Or(c.verdict, "PENDING"),
                                  outcome |-> c.outcome]
                            ELSE entry(ref)
        BY <3>2, <3>5, <4>3 DEF Created, Row, Given, Abstract!Or
      <4>5. Abstract!Enter(r)
        BY <3>4, <3>5, <4>1, <4>2, <4>4 DEF Abstract!Enter, IsDecision
      <4> QED
        BY <4>5 DEF Abstract!Next
    <3>6. CASE /\ IsVerdict(s) /\ c.ref \in Refs /\ decisions[c.ref] \in DecisionRows
               /\ tx[s].written = Materialised(c, decisions[c.ref], tx[s].loaded)
               /\ tx[s].written # NoRow
               /\ tx[s].novel <=> key \notin events
      <4>1. entry(c.ref) # Abstract!Nothing
        BY <3>6 DEF Abstract!Nothing, DecisionRows, Verdicts, Absent
      <4>2. steps' = [steps EXCEPT ![key] = 1]
        <5>1. key \in EventKeys
          BY <3>2, <3>6, EventKeyType DEF IsVerdict, KeyOf
        <5>2. steps[key] = IF key \in events THEN 1 ELSE 0
          BY <5>1 DEF IInv, SteppedExactlyOnce
        <5>3. steps'[key] = 1
          BY <3>2, <3>6, <5>2
        <5> QED
          BY <3>2, <5>3
      <4>3. \A ref \in Refs : Writing(s, ref) <=> ref = c.ref
        BY <3>6 DEF Writing, Refs
      <4>4. \A ref \in Refs :
              entry(ref)' =
                IF ref = c.ref
                THEN [verdict |-> Abstract!Or(c.verdict, entry(ref).verdict),
                      outcome |-> Abstract!Or(c.outcome, entry(ref).outcome)]
                ELSE entry(ref)
        BY <3>2, <3>6, <4>3 DEF Materialised, Row, Given, Abstract!Or
      <4> DEFINE entries == [ref \in Refs |-> entry(ref)]
                 amended == [verdict |-> Abstract!Or(c.verdict, entry(c.ref).verdict),
                             outcome |-> Abstract!Or(c.outcome, entry(c.ref).outcome)]
      <4>5. entries' = [entries EXCEPT ![r.ref] =
              [verdict |-> Abstract!Or(r.verdict, @.verdict),
               outcome |-> Abstract!Or(r.outcome, @.outcome)]]
        <5>1. entries[r.ref] = entry(c.ref) /\ r.ref \in DOMAIN entries
          BY <3>4, <3>6
        <5>2. \A ref \in Refs : entry(ref)' = IF ref = c.ref THEN amended ELSE entry(ref)
          BY <4>4
        <5>3. entries' = [entries EXCEPT ![r.ref] = amended]
          <6> HIDE DEF entry, amended
          <6> QED
            BY <3>4, <5>2
        <5> QED
          BY <3>4, <5>1, <5>3
      <4>6. Abstract!Amend(r)
        <5>1. entries[r.ref] # Abstract!Nothing
          BY <3>4, <3>6, <4>1
        <5> QED
          BY <3>4, <3>6, <4>2, <4>5, <5>1 DEF Abstract!Amend, IsVerdict
      <4> QED
        BY <4>6 DEF Abstract!Next
    <3> QED
      BY <2>2, <3>1, <3>5, <3>6, CommitSays
  <2> QED
    BY <2>1, <2>2
<1> QED
  BY <1>1, <1>2, Invariance, PTL DEF Spec, ImplementsLedger, Abstract!Spec
==============================================================================
