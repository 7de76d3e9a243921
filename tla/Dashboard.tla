------------------------------ MODULE Dashboard -------------------------------
(***************************************************************************)
(* The overview that people watch and act from, and the agent-wide stop    *)
(* (apps/web/src/components/overview-client.tsx, suspend-panel.tsx and     *)
(* fleet-row.tsx, apps/web/src/lib/overview.ts, api.ts and fleet-view.ts,  *)
(* apps/web/src/app/api, apps/api/src/app.ts).                             *)
(*                                                                         *)
(* The fleet is one agent's tasks, each with what of it decides the row's  *)
(* buttons; TaskLifecycle says how it comes to be so. Every tab polls; an  *)
(* answer is of the fleet when it is asked for, and answers arrive in any  *)
(* order. Of the eight reads of a poll only the fleet's is kept.           *)
(***************************************************************************)
EXTENDS Sessions, FiniteSets

CONSTANTS
  Tasks,      \* tasks of the agent
  Begun,      \* the fleet to begin with, of an agent that is not stopped
  MaxPolls,   \* bound: answers in flight to a tab
  MaxChanges, \* bound: changes of the fleet
  MaxFaults   \* bound: failures of the API to answer the web application

States == {"NONE", "LIVE", "OFFERED", "SUSPENDED"}
Fleets == [Tasks -> States]

ASSUME DashboardAssumption ==
  Begun \in Fleets /\ MaxPolls \in Nat /\ MaxChanges \in Nat /\ MaxFaults \in Nat

VARIABLES
  fleet,    \* the tasks: "NONE", "LIVE", "OFFERED" or "SUSPENDED"
  marker,   \* the agent's marker of an agent-wide stop
  released, \* history: tasks begun or resumed since that stop
  screen,   \* what each tab shows: a fleet
  polls,    \* the answers in flight to each tab
  asked,    \* what each tab has asked for: an action in flight
  panel,    \* the task and action of each tab's panel
  changes,  \* the number of changes
  faults    \* the number of failures

serverVars == <<fleet, marker, released, changes>>
tabVars == <<screen, polls, asked, panel, faults>>
vars == <<sessionVars, serverVars, tabVars>>

Empty == [k \in Tasks |-> "NONE"]
Whole == "WHOLE_AGENT"
Actions == [kind : {"APPROVE", "SUSPEND", "RESUME"}, task : Tasks \cup {Whole}]
None == [kind |-> "NONE", task |-> Whole]

TypeOK ==
  /\ SessionsTypeOK
  /\ fleet \in Fleets /\ marker \in BOOLEAN /\ released \subseteq Tasks
  /\ screen \in [Tabs -> Fleets]
  /\ \A t \in Tabs : polls[t] \subseteq Fleets
  /\ asked \in [Tabs -> Actions \cup {None}] /\ panel \in [Tabs -> Actions \cup {None}]
  /\ changes \in 0..MaxChanges /\ faults \in 0..MaxFaults

DashboardInit ==
  /\ SessionsInit
  /\ fleet = Begun /\ marker = FALSE /\ released = {}
  /\ screen = [t \in Tabs |-> Empty]
  /\ polls = [t \in Tabs |-> {}]
  /\ asked = [t \in Tabs |-> None] /\ panel = [t \in Tabs |-> None]
  /\ changes = 0 /\ faults = 0

------------------------------------------------------------------------------
(* The fleet *)

\* Mutant: a task whose promotion is pending counts as none that works.
LiveUnlessOffered(s) == s = "LIVE"
Live(s) == s \in {"LIVE", "OFFERED"}
Existing == {k \in Tasks : fleet[k] # "NONE"}

Changed == changes < MaxChanges /\ changes' = changes + 1

\* Agents report: a task begins, a promotion is offered or lost, a guardrail
\* trips. A task that begins does not look at the agent's marker.
Reported ==
  /\ Changed
  /\ \E k \in Tasks, s \in States \ {"NONE"} :
       /\ fleet[k] # "SUSPENDED" /\ fleet[k] # s
       /\ fleet[k] = "NONE" => s = "LIVE"
       /\ fleet' = [fleet EXCEPT ![k] = s]
       /\ released' = IF fleet[k] = "NONE" THEN released \cup {k} ELSE released
  /\ UNCHANGED <<sessionVars, marker, tabVars>>

\* The tasks that an action finds in a state to change.
Applies(a, k) ==
  CASE a.kind = "APPROVE" -> fleet[k] = "OFFERED"
    [] a.kind = "SUSPEND" -> Live(fleet[k])
    [] a.kind = "RESUME" -> fleet[k] = "SUSPENDED"
\* An agent-wide action goes past the tasks that are where it would take them.
Targets(a) == {k \in (IF a.task = Whole THEN Existing ELSE {a.task}) : Applies(a, k)}
Refused(a) == Targets(a) = {} /\ (a.task = Whole => Existing # {})

\* The API carries an action out, for all its tasks at once. An agent-wide
\* one sets or clears the marker, one of a task does not.
CarriedOut(a) ==
  /\ fleet' = [k \in Tasks |->
       IF k \notin Targets(a) THEN fleet[k]
       ELSE IF a.kind = "SUSPEND" THEN "SUSPENDED" ELSE "LIVE"]
  /\ marker' = IF a.task = Whole THEN a.kind = "SUSPEND" ELSE marker
  /\ released' = IF a.task = Whole /\ a.kind = "SUSPEND" THEN {}
                 ELSE IF a.kind = "RESUME" THEN released \cup Targets(a) ELSE released

------------------------------------------------------------------------------
(* A tab *)

SignedIn == cookie > 0

\* A tab that opens the overview has it loaded with the page.
Opened(t) ==
  /\ Navigate(t)
  /\ screen' = IF cookie > 0 THEN [screen EXCEPT ![t] = fleet] ELSE screen
  /\ polls' = [polls EXCEPT ![t] = {}]
  /\ asked' = [asked EXCEPT ![t] = None] /\ panel' = [panel EXCEPT ![t] = None]
  /\ UNCHANGED <<serverVars, faults>>

\* What the web application answers a poll: the fleet, or without a session or
\* when the API does not tell it the caller's role, an empty fleet. An answer
\* that failed otherwise is not shown.
Answered(fault) == IF SignedIn /\ ~fault THEN fleet ELSE Empty
Poll(t) ==
  /\ at[t] = "PAGE" /\ Cardinality(polls[t]) < MaxPolls
  /\ \E fault \in BOOLEAN :
       /\ fault => faults < MaxFaults
       /\ faults' = IF fault THEN faults + 1 ELSE faults
       /\ polls' = [polls EXCEPT ![t] = @ \cup {Answered(fault)}]
  /\ UNCHANGED <<sessionVars, serverVars, screen, asked, panel>>

\* An answer arrives.
\* Mutant: answers are shown only where they add to the screen.
TakenOnce(shown, view) == IF shown = Empty THEN view ELSE shown
Taken(shown, view) == view
Show(t, view) ==
  /\ view \in polls[t]
  /\ screen' = [screen EXCEPT ![t] = Taken(@, view)]
  /\ polls' = [polls EXCEPT ![t] = @ \ {view}]
  /\ UNCHANGED <<sessionVars, serverVars, asked, panel, faults>>

\* A person opens the panel of a row, for the action that the row offers.
Open(t) ==
  /\ at[t] = "PAGE" /\ panel[t] = None
  /\ \E k \in Tasks, kind \in {"SUSPEND", "RESUME"} :
       /\ IF kind = "SUSPEND" THEN Live(screen[t][k]) ELSE screen[t][k] = "SUSPENDED"
       /\ panel' = [panel EXCEPT ![t] = [kind |-> kind, task |-> k]]
  /\ UNCHANGED <<sessionVars, serverVars, screen, polls, asked, faults>>
Close(t) ==
  /\ panel[t] # None /\ asked[t] = None
  /\ panel' = [panel EXCEPT ![t] = None]
  /\ UNCHANGED <<sessionVars, serverVars, screen, polls, asked, faults>>

\* ... and submits it, for the task or for the agent; or approves the offer of
\* a row.
Submit(t) ==
  /\ at[t] = "PAGE" /\ asked[t] = None
  /\ \/ /\ panel[t] # None
        /\ \E k \in {panel[t].task, Whole} :
             asked' = [asked EXCEPT ![t] = [kind |-> panel[t].kind, task |-> k]]
     \/ /\ panel[t] = None
        /\ \E k \in Tasks :
             /\ screen[t][k] = "OFFERED"
             /\ asked' = [asked EXCEPT ![t] = [kind |-> "APPROVE", task |-> k]]
  /\ UNCHANGED <<sessionVars, serverVars, screen, polls, panel, faults>>

\* It reaches the API, which refuses it without a session or when no task is in
\* a state for it. The tab polls and closes the panel once it is carried out; an
\* approval polls whatever its answer.
Reach(t) ==
  /\ asked[t] # None
  /\ asked' = [asked EXCEPT ![t] = None]
  /\ IF SignedIn /\ ~Refused(asked[t])
     THEN /\ Changed /\ CarriedOut(asked[t])
          /\ panel' = [panel EXCEPT ![t] = None]
          /\ polls' = [polls EXCEPT ![t] = @ \cup {fleet'}]
     ELSE /\ UNCHANGED <<serverVars, panel>>
          /\ polls' = IF asked[t].kind = "APPROVE"
                      THEN [polls EXCEPT ![t] = @ \cup {Answered(FALSE)}] ELSE polls
  /\ UNCHANGED <<sessionVars, screen, faults>>

\* Logins and logouts, time, and other pages.
Session ==
  /\ \/ \E t \in Tabs :
          \/ Start(t) \/ Arrive(t) \/ Logout(t)
          \/ Callback(t) /\ at'[t] # "PAGE"
     \/ Tick
     \/ RestartWeb
  /\ UNCHANGED <<serverVars, tabVars>>
LoggedIn(t) ==
  /\ Callback(t) /\ at'[t] = "PAGE"
  /\ screen' = [screen EXCEPT ![t] = fleet]
  /\ polls' = [polls EXCEPT ![t] = {}]
  /\ asked' = [asked EXCEPT ![t] = None] /\ panel' = [panel EXCEPT ![t] = None]
  /\ UNCHANGED <<serverVars, faults>>

Next ==
  \/ Reported
  \/ \E t \in Tabs :
       \/ Opened(t) \/ LoggedIn(t) \/ Poll(t) \/ Open(t) \/ Close(t)
       \/ Submit(t) \/ Reach(t)
       \/ \E view \in polls[t] : Show(t, view)
  \/ Session

\* A tab polls every four seconds, and every answer arrives.
Fairness ==
  \A t \in Tabs :
    /\ WF_vars(Poll(t))
    /\ \A view \in Fleets : WF_vars(Show(t, view))
    /\ WF_vars(Arrive(t) /\ UNCHANGED <<serverVars, tabVars>>)

Spec == DashboardInit /\ [][Next]_vars /\ Fairness

------------------------------------------------------------------------------
(* Properties *)

\* Whatever order answers arrive in and whatever has failed in between, the
\* screen of a tab that stays on the overview, signed in, comes to show the
\* fleet once that has stopped changing (overview-client.tsx refresh).
ScreenCatchesUp ==
  \A t \in Tabs :
    <>[](SignedIn /\ at[t] = "PAGE") => <>[](SignedIn /\ screen[t] = fleet)

\* "The marker reflects operator INTENT" (app.ts:720): while an agent is marked
\* as stopped, every task of it is, but for those begun or resumed since, of
\* whatever mixture of states the stop found them in.
MarkedAgentIsStopped ==
  marker => \A k \in Existing \ released : fleet[k] = "SUSPENDED"

\* "Always clear the local session cookie" (logout/route.ts:6): nobody who has
\* logged out has a session.
LogoutEndsSession == out => cookie = 0
=============================================================================
