---------------------------- MODULE DashboardProofs ----------------------------
(***************************************************************************)
(* The theorems of Dashboard, for any number of tabs and tasks and any     *)
(* lifetime of a session. Liveness is left to the model checker.           *)
(***************************************************************************)
EXTENDS Dashboard, TLAPS

SessionTyped == cookie \in 0..Ttl /\ idle \in 0..Ttl
SessionInv == SessionTyped /\ UsedSessionsLast

FleetTyped == fleet \in Fleets /\ marker \in BOOLEAN /\ released \subseteq Tasks
FleetInv == FleetTyped /\ MarkedAgentIsStopped

------------------------------------------------------------------------------
(* The session *)

\* A session renewed or begun has more time left than the threshold.
LEMMA FreshIsLong == Ttl \in Nat /\ Threshold \in Nat /\ 0 < Threshold /\ Threshold < Ttl
  BY SessionsAssumption

LEMMA CallbackKeeps ==
  ASSUME SessionInv, NEW t \in Tabs, Callback(t)
  PROVE  SessionInv'
<1>1. \/ cookie' = Ttl /\ idle' = 0
      \/ cookie' = cookie /\ idle' = idle
  BY DEF Callback
<1>2. arriving' = arriving
  BY DEF Callback
<1> QED
  BY <1>1, <1>2, FreshIsLong DEF SessionInv, SessionTyped, UsedSessionsLast

LEMMA NavigateKeeps ==
  ASSUME SessionInv, NEW t \in Tabs, Navigate(t)
  PROVE  SessionInv'
<1>1. SessionTyped'
  BY FreshIsLong DEF Navigate, SessionInv, SessionTyped
<1>2. CASE cookie > 0 /\ ShouldRefresh(cookie)
  <2>1. arriving' # {}
    BY <1>2 DEF Navigate
  <2> QED
    BY <1>1, <2>1 DEF SessionInv, UsedSessionsLast
<1>3. CASE cookie > 0 /\ ~ShouldRefresh(cookie)
  <2>1. cookie' = cookie /\ cookie > Threshold /\ idle' = 0
    BY <1>3, FreshIsLong DEF Navigate, ShouldRefresh, SessionInv, SessionTyped
  <2> QED
    BY <1>1, <2>1, FreshIsLong DEF SessionInv, SessionTyped, UsedSessionsLast
<1>4. CASE ~(cookie > 0)
  BY <1>1, <1>4 DEF Navigate, SessionInv, UsedSessionsLast
<1> QED
  BY <1>2, <1>3, <1>4

LEMMA TickKeeps ==
  ASSUME SessionInv, Tick
  PROVE  SessionInv'
  BY FreshIsLong DEF Tick, SessionInv, SessionTyped, UsedSessionsLast

LEMMA OtherSessionStepsKeep ==
  ASSUME SessionInv, NEW t \in Tabs, Start(t) \/ Arrive(t) \/ Logout(t) \/ RestartWeb
  PROVE  SessionInv'
<1>1. CASE Start(t)
  BY <1>1 DEF Start, SessionInv, SessionTyped, UsedSessionsLast
<1>2. CASE Arrive(t)
  BY <1>2, FreshIsLong DEF Arrive, SessionInv, SessionTyped, UsedSessionsLast
<1>3. CASE Logout(t)
  <2>1. (cookie' = 0 \/ cookie' = cookie) /\ idle' = idle /\ arriving' = arriving
    <3>1. PICK d \in {"READY", "REJECTED"} : cookie' = IF d = "READY" THEN 0 ELSE cookie
      BY <1>3 DEF Logout
    <3> QED
      BY <1>3, <3>1 DEF Logout
  <2> QED
    BY <2>1, FreshIsLong DEF SessionInv, SessionTyped, UsedSessionsLast
<1>4. CASE RestartWeb
  BY <1>4 DEF RestartWeb, SessionInv, SessionTyped, UsedSessionsLast
<1> QED
  BY <1>1, <1>2, <1>3, <1>4

\* A session that is used within the threshold does not end but by a logout: whatever the
\* lifetime and the threshold are, and however long a renewed cookie is in flight.
THEOREM SessionsLast == Spec => []UsedSessionsLast
<1>1. DashboardInit => SessionInv
  BY FreshIsLong DEF DashboardInit, SessionsInit, SessionInv, SessionTyped, UsedSessionsLast
<1>2. SessionInv /\ [Next]_vars => SessionInv'
  <2> SUFFICES ASSUME SessionInv, [Next]_vars PROVE SessionInv'
    OBVIOUS
  <2>1. CASE UNCHANGED sessionVars
    BY <2>1 DEF sessionVars, SessionInv, SessionTyped, UsedSessionsLast
  <2>2. CASE Session
    <3>1. CASE Tick
      BY <3>1, TickKeeps
    <3>2. CASE RestartWeb
      BY <3>2 DEF RestartWeb, SessionInv, SessionTyped, UsedSessionsLast
    <3>3. ASSUME NEW t \in Tabs, Start(t) \/ Arrive(t) \/ Logout(t) \/ Callback(t)
          PROVE  SessionInv'
      BY <3>3, OtherSessionStepsKeep, CallbackKeeps
    <3> QED
      BY <2>2, <3>1, <3>2, <3>3 DEF Session
  <2>3. ASSUME NEW t \in Tabs, Opened(t) PROVE SessionInv'
    BY <2>3, NavigateKeeps DEF Opened
  <2>4. ASSUME NEW t \in Tabs, LoggedIn(t) PROVE SessionInv'
    BY <2>4, CallbackKeeps DEF LoggedIn
  <2>5. CASE Reported
    BY <2>1, <2>5 DEF Reported
  <2>6. ASSUME NEW t \in Tabs,
               Poll(t) \/ Open(t) \/ Close(t) \/ Submit(t) \/ Reach(t)
                 \/ \E view \in polls[t] : Show(t, view)
        PROVE  UNCHANGED sessionVars
    BY <2>6 DEF Poll, Open, Close, Submit, Reach, Show
  <2>7. CASE UNCHANGED vars
    BY <2>1, <2>7 DEF vars
  <2> QED
    BY <2>1, <2>2, <2>3, <2>4, <2>5, <2>6, <2>7 DEF Next
<1>3. SessionInv => UsedSessionsLast
  BY DEF SessionInv
<1> QED
  BY <1>1, <1>2, <1>3, PTL DEF Spec

------------------------------------------------------------------------------
(* The agent-wide stop *)

LEMMA ReportedKeeps ==
  ASSUME FleetInv, Reported
  PROVE  FleetInv'
<1>1. PICK k \in Tasks, s \in States \ {"NONE"} :
        /\ fleet[k] # "SUSPENDED"
        /\ fleet' = [fleet EXCEPT ![k] = s]
        /\ released' = IF fleet[k] = "NONE" THEN released \cup {k} ELSE released
  BY DEF Reported
<1>2. FleetTyped'
  BY <1>1 DEF Reported, FleetInv, FleetTyped, Fleets
<1>3. ASSUME marker', NEW j \in Existing' \ released'
      PROVE  fleet'[j] = "SUSPENDED"
  <2>1. marker /\ fleet \in [Tasks -> States] /\ j \in Tasks
    BY <1>3 DEF Reported, FleetInv, FleetTyped, Fleets, Existing
  <2>2. j # k
    <3>1. CASE fleet[k] = "NONE"
      BY <1>1, <1>3, <3>1
    <3>2. CASE fleet[k] # "NONE"
      BY <1>1, <1>3, <2>1, <3>2 DEF FleetInv, MarkedAgentIsStopped, Existing
    <3> QED
      BY <3>1, <3>2
  <2>3. fleet'[j] = fleet[j] /\ j \in Existing \ released
    BY <1>1, <1>3, <2>1, <2>2 DEF Existing
  <2> QED
    BY <2>1, <2>3 DEF FleetInv, MarkedAgentIsStopped
<1> QED
  BY <1>2, <1>3 DEF FleetInv, MarkedAgentIsStopped

\* What an action leaves behind, whichever it is: an agent-wide stop parks every task there
\* is; any other action of a marked agent lets a task go only by name.
LEMMA CarriedOutKeeps ==
  ASSUME FleetInv, NEW a \in Actions, CarriedOut(a)
  PROVE  FleetInv'
<1>1. fleet \in [Tasks -> States] /\ marker \in BOOLEAN /\ released \subseteq Tasks
  BY DEF FleetInv, FleetTyped, Fleets
<1>2. Targets(a) \subseteq Existing \cup {a.task}
  BY DEF Targets
<1>3. \A k \in Targets(a) : Applies(a, k)
  BY DEF Targets
<1>4. a.kind \in {"APPROVE", "SUSPEND", "RESUME"}
  BY DEF Actions
<1>5. \A k \in Tasks :
        fleet'[k] = IF k \notin Targets(a) THEN fleet[k]
                    ELSE IF a.kind = "SUSPEND" THEN "SUSPENDED" ELSE "LIVE"
  BY DEF CarriedOut
<1>6. FleetTyped'
  <2>1. fleet' \in Fleets
    BY <1>1 DEF CarriedOut, Fleets, States
  <2>2. marker' \in BOOLEAN
    BY <1>1 DEF CarriedOut
  <2>3. released' \subseteq Tasks
    <3>1. a.kind = "RESUME" => Targets(a) \subseteq Tasks
      BY DEF Targets, Applies, Existing, Actions, Whole
    <3> QED
      BY <1>1, <3>1 DEF CarriedOut
  <2> QED
    BY <2>1, <2>2, <2>3 DEF FleetTyped
<1>7. ASSUME marker', NEW j \in Existing' \ released'
      PROVE  fleet'[j] = "SUSPENDED"
  <2>1. j \in Tasks /\ fleet[j] \in States /\ fleet'[j] # "NONE" /\ j \notin released'
    BY <1>1, <1>7 DEF Existing
  <2>2. CASE a.task = Whole
    <3>1. a.kind = "SUSPEND"
      BY <1>7, <2>2 DEF CarriedOut
    <3>2. j \in Targets(a) \/ fleet[j] = "SUSPENDED"
      BY <1>5, <2>1, <2>2, <3>1 DEF Targets, Applies, Live, Existing, States
    <3> QED
      BY <1>5, <2>1, <3>1, <3>2
  <2>3. CASE a.task # Whole
    <3>1. marker
      BY <1>7, <2>3 DEF CarriedOut
    <3>2. CASE j \notin Targets(a)
      <4>1. j \in Existing \ released /\ fleet'[j] = fleet[j]
        BY <1>5, <2>1, <2>3, <3>2 DEF CarriedOut, Existing
      <4> QED
        BY <3>1, <4>1 DEF FleetInv, MarkedAgentIsStopped
    <3>3. CASE j \in Targets(a) /\ a.kind = "APPROVE"
      <4>1. fleet[j] = "OFFERED" /\ j \notin released
        BY <1>3, <2>1, <2>3, <3>3 DEF Applies, CarriedOut
      <4> QED
        BY <2>1, <3>1, <4>1 DEF FleetInv, MarkedAgentIsStopped, Existing
    <3>4. CASE j \in Targets(a) /\ a.kind = "RESUME"
      BY <2>1, <2>3, <3>4 DEF CarriedOut
    <3>5. CASE j \in Targets(a) /\ a.kind = "SUSPEND"
      BY <1>5, <2>1, <3>5
    <3> QED
      BY <1>4, <3>2, <3>3, <3>4, <3>5
  <2> QED
    BY <2>2, <2>3
<1> QED
  BY <1>6, <1>7 DEF FleetInv, MarkedAgentIsStopped

\* A tab asks for actions, and only for actions.
AskedTyped == asked \in [Tabs -> Actions \cup {None}] /\ panel \in [Tabs -> Actions \cup {None}]

LEMMA ActionsAreTyped ==
  /\ \A kind \in {"APPROVE", "SUSPEND", "RESUME"}, k \in Tasks \cup {Whole} :
       [kind |-> kind, task |-> k] \in Actions
  /\ \A a \in Actions : a.kind \in {"APPROVE", "SUSPEND", "RESUME"}
                        /\ a.task \in Tasks \cup {Whole} /\ a # None
  BY DEF Actions, None

LEMMA AskedStaysTyped ==
  ASSUME AskedTyped, [Next]_vars
  PROVE  AskedTyped'
<1> USE DEF AskedTyped
<1>1. CASE UNCHANGED <<asked, panel>>
  BY <1>1
<1>2. ASSUME NEW t \in Tabs, Opened(t) \/ LoggedIn(t) PROVE AskedTyped'
  BY <1>2 DEF Opened, LoggedIn
<1>3. ASSUME NEW t \in Tabs, Open(t) PROVE AskedTyped'
  <2>1. PICK k \in Tasks, kind \in {"SUSPEND", "RESUME"} :
          panel' = [panel EXCEPT ![t] = [kind |-> kind, task |-> k]]
    BY <1>3 DEF Open
  <2>2. [kind |-> kind, task |-> k] \in Actions
    BY ActionsAreTyped
  <2>3. asked' = asked
    BY <1>3 DEF Open
  <2> QED
    BY <2>1, <2>2, <2>3
<1>4. ASSUME NEW t \in Tabs, Close(t) PROVE AskedTyped'
  BY <1>4 DEF Close
<1>5. ASSUME NEW t \in Tabs, Submit(t) PROVE AskedTyped'
  <2>1. panel' = panel
    BY <1>5 DEF Submit
  <2>2. \E a \in Actions : asked' = [asked EXCEPT ![t] = a]
    <3>1. CASE panel[t] # None
      <4>1. panel[t] \in Actions
        BY <3>1
      <4>2. PICK k \in {panel[t].task, Whole} :
              asked' = [asked EXCEPT ![t] = [kind |-> panel[t].kind, task |-> k]]
        BY <1>5, <3>1 DEF Submit
      <4>3. [kind |-> panel[t].kind, task |-> k] \in Actions
        BY <4>1, <4>2, ActionsAreTyped
      <4> QED
        BY <4>2, <4>3
    <3>2. CASE panel[t] = None
      <4>1. PICK k \in Tasks : asked' = [asked EXCEPT ![t] = [kind |-> "APPROVE", task |-> k]]
        BY <1>5, <3>2 DEF Submit
      <4>2. [kind |-> "APPROVE", task |-> k] \in Actions
        BY ActionsAreTyped
      <4> QED
        BY <4>1, <4>2
    <3> QED
      BY <3>1, <3>2
  <2> QED
    BY <2>1, <2>2
<1>6. ASSUME NEW t \in Tabs, Reach(t) PROVE AskedTyped'
  <2>1. asked' = [asked EXCEPT ![t] = None]
    BY <1>6 DEF Reach
  <2>2. panel' = panel \/ panel' = [panel EXCEPT ![t] = None]
    BY <1>6 DEF Reach
  <2> QED
    BY <2>1, <2>2
<1>7. ASSUME NEW t \in Tabs, Poll(t) \/ \E view \in polls[t] : Show(t, view)
      PROVE  UNCHANGED <<asked, panel>>
  BY <1>7 DEF Poll, Show
<1>8. Reported \/ Session \/ UNCHANGED vars => UNCHANGED <<asked, panel>>
  BY DEF Reported, Session, vars, tabVars
<1> QED
  BY <1>1, <1>2, <1>3, <1>4, <1>5, <1>6, <1>7, <1>8 DEF Next

\* While an agent is marked as stopped, every task of it is, but for those begun or resumed
\* since: whatever the tabs show and in whatever order their actions arrive.
THEOREM StopHolds == Spec => []MarkedAgentIsStopped
<1> DEFINE I == FleetInv /\ AskedTyped
<1>1. DashboardInit => I
  BY DashboardAssumption
     DEF DashboardInit, FleetInv, FleetTyped, MarkedAgentIsStopped, AskedTyped
<1>2. I /\ [Next]_vars => I'
  <2> SUFFICES ASSUME I, [Next]_vars PROVE FleetInv'
    BY AskedStaysTyped
  <2>1. CASE UNCHANGED serverVars
    BY <2>1 DEF serverVars, FleetInv, FleetTyped, MarkedAgentIsStopped, Existing
  <2>2. CASE Reported
    BY <2>2, ReportedKeeps
  <2>3. ASSUME NEW t \in Tabs, Reach(t) PROVE FleetInv'
    <3>1. asked[t] \in Actions
      BY <2>3 DEF Reach, AskedTyped
    <3>2. CarriedOut(asked[t]) \/ UNCHANGED serverVars
      BY <2>3 DEF Reach
    <3> QED
      BY <2>1, <3>1, <3>2, CarriedOutKeeps
  <2>4. ASSUME NEW t \in Tabs,
               Opened(t) \/ LoggedIn(t) \/ Poll(t) \/ Open(t) \/ Close(t) \/ Submit(t)
                 \/ \E view \in polls[t] : Show(t, view)
        PROVE  UNCHANGED serverVars
    BY <2>4 DEF Opened, LoggedIn, Poll, Open, Close, Submit, Show
  <2>5. Session \/ UNCHANGED vars => UNCHANGED serverVars
    BY DEF Session, vars
  <2> QED
    BY <2>1, <2>2, <2>3, <2>4, <2>5 DEF Next
<1>3. I => MarkedAgentIsStopped
  BY DEF FleetInv
<1> QED
  BY <1>1, <1>2, <1>3, PTL DEF Spec
==============================================================================
